---- MODULE Spec2Model ----
(***************************************************************************)
(* Object store of TikzSketch (src/src/lib/store.ts): the object           *)
(* collection, the selection, the selection box, the constraints, the      *)
(* canvas settings and the undo/redo history.                              *)
(*                                                                         *)
(* A DrawingObject is modelled by the fields the store operations read or  *)
(* write: id, selected, and one number-typed field (angleValue) standing   *)
(* for the numeric payload; the selection box and the constraints read     *)
(* visible, type, position, points and constraints as well.  JavaScript    *)
(* values of angleValue are the tokens "180", "NaN" and "null".            *)
(* Coordinates are integers and the zoom factor is held in tenths.         *)
(* historyIndex is 0-based as in the source; TLA+ sequences are 1-based,   *)
(* so history[historyIndex] and points[0] of the source are                *)
(* history[historyIndex + 1] and points[1] here.                           *)
(***************************************************************************)
EXTENDS Integers, Sequences, FiniteSets, TLC

\* ---------------------------------------------------------------- bounds
NumIds == 2
MaxObjects == 2
MaxCommits == 2
MaxCoord == 1
MaxZoom == 51

\* ------------------------------------------------------ program constants
maxHistorySize == 50

\* ------------------------------------------------------------ value sets
\* Outcomes of Math.random().toString(36).substr(2, 9): any id string; no
\* check against the ids in use.
generateId == 1..NumIds

\* number-typed field values a payload can carry (calculateAngle yields NaN
\* for coincident points)
PayloadNumbers == {"180", "NaN"}

\* objectData of addObject: Omit<DrawingObject, 'id' | 'createdAt'>
ObjectData == [selected : {FALSE}, angleValue : PayloadNumbers]

\* updates of updateObject: Partial<DrawingObject>
Updates == [angleValue : PayloadNumbers] \cup [id : generateId]

\* ------------------------------------------------------------- variables
VARIABLES objects, selectedObjectIds, history, historyIndex, last, trail,
          isSelectionBoxActive, selectionBoxStart, selectionBoxEnd, canvas,
          activeTool, isDrawing, drawingStartPoint, previewObject,
          currentPolygonPoints, isPolygonDrawing,
          constructionMode, constructionStep, constructionData,
          isTextEditing, textEditorPosition

store == <<objects, selectedObjectIds, history, historyIndex>>
selectionBox == <<isSelectionBoxActive, selectionBoxStart, selectionBoxEnd>>
drawing == <<isDrawing, drawingStartPoint, previewObject>>
polygonDrawing == <<isPolygonDrawing, currentPolygonPoints>>
construction == <<constructionMode, constructionStep, constructionData>>
flows == <<activeTool, drawing, polygonDrawing, construction>>
textEditing == <<isTextEditing, textEditorPosition>>
view == <<selectionBox, canvas, flows, textEditing>>
vars == <<store, last, trail, view>>

\* the JavaScript null of selectionBoxStart / selectionBoxEnd, of
\* drawingStartPoint, previewObject, constructionData and
\* textEditorPosition
null == [null |-> TRUE]

\* the initial tool and the initial drawing, polygon, construction and
\* text editing state
InitFlows ==
  /\ activeTool = "select"
  /\ isDrawing = FALSE
  /\ drawingStartPoint = null
  /\ previewObject = null
  /\ currentPolygonPoints = <<>>
  /\ isPolygonDrawing = FALSE
  /\ constructionMode = "none"
  /\ constructionStep = 0
  /\ constructionData = null
  /\ isTextEditing = FALSE
  /\ textEditorPosition = null

\* defaultCanvasSettings: the grid switch, the snap switch and distance,
\* the zoom factor (held in tenths, 10 for 1.0) and the pan offset
defaultCanvasSettings ==
  [gridVisible |-> TRUE, snapToPoints |-> TRUE, snapDistance |-> 14,
   zoom |-> 10, pan |-> [x |-> 400, y |-> 300]]

\* ------------------------------------------------------- pure operators
Includes(seq, x) == \E i \in 1..Len(seq) : seq[i] = x

IdsOf(objs) == {objs[i].id : i \in 1..Len(objs)}

\* JSON.stringify of a number: NaN (and Infinity) become null
JsonValue(v) == IF v = "NaN" THEN "null" ELSE v

\* JSON.parse(JSON.stringify(objs))
JsonCopy(objs) ==
  [i \in 1..Len(objs) |->
     IF "angleValue" \in DOMAIN objs[i]
     THEN [objs[i] EXCEPT !.angleValue = JsonValue(@)]
     ELSE objs[i]]

\* Object.assign(obj, updates)
Assign(obj, updates) ==
  [f \in DOMAIN obj \cup DOMAIN updates |->
     IF f \in DOMAIN updates THEN updates[f] ELSE obj[f]]

\* objects.findIndex(obj => obj.id === id), 0 for -1
FindIndex(objs, id) ==
  IF id \in IdsOf(objs)
  THEN CHOOSE i \in 1..Len(objs) : objs[i].id = id /\ \A j \in 1..(i - 1) : objs[j].id # id
  ELSE 0

\* state.objects.forEach(obj => obj.selected = selectedObjectIds.includes(obj.id))
MirrorSelection(objs, sel) ==
  [i \in 1..Len(objs) |-> [objs[i] EXCEPT !.selected = Includes(sel, objs[i].id)]]

\* state.objects.forEach(obj => obj.selected = false)
ClearSelected(objs) ==
  [i \in 1..Len(objs) |-> [objs[i] EXCEPT !.selected = FALSE]]

\* The store as a record, for the operations that call one another.
Store == [objects |-> objects, selectedObjectIds |-> selectedObjectIds,
          history |-> history, historyIndex |-> historyIndex]

SaveToHistoryNoTruncate(s) ==
  LET pushed == Append(s.history, JsonCopy(s.objects))
      limited == IF Len(pushed) > maxHistorySize
                 THEN SubSeq(pushed, Len(pushed) - maxHistorySize + 1, Len(pushed))
                 ELSE pushed
  IN [s EXCEPT !.history = limited, !.historyIndex = Len(limited) - 1]

SaveToHistoryNoLimit(s) ==
  LET kept == IF s.historyIndex < Len(s.history) - 1
              THEN SubSeq(s.history, 1, s.historyIndex + 1)
              ELSE s.history
      pushed == Append(kept, JsonCopy(s.objects))
  IN [s EXCEPT !.history = pushed, !.historyIndex = Len(pushed) - 1]

SaveToHistoryIndexOffByOne(s) ==
  LET kept == IF s.historyIndex < Len(s.history) - 1
              THEN SubSeq(s.history, 1, s.historyIndex + 1)
              ELSE s.history
      pushed == Append(kept, JsonCopy(s.objects))
      limited == IF Len(pushed) > maxHistorySize
                 THEN SubSeq(pushed, Len(pushed) - maxHistorySize + 1, Len(pushed))
                 ELSE pushed
  IN [s EXCEPT !.history = limited, !.historyIndex = Len(limited)]

\* saveToHistory
SaveToHistory(s) ==
  LET currentObjects == JsonCopy(s.objects)
      kept == IF s.historyIndex < Len(s.history) - 1
              THEN SubSeq(s.history, 1, s.historyIndex + 1)
              ELSE s.history
      pushed == Append(kept, currentObjects)
      limited == IF Len(pushed) > maxHistorySize
                 THEN SubSeq(pushed, Len(pushed) - maxHistorySize + 1, Len(pushed))
                 ELSE pushed
  IN [s EXCEPT !.history = limited, !.historyIndex = Len(limited) - 1]

SelectObjectAlwaysPush(s, id, multiSelect) ==
  LET sel == IF multiSelect THEN Append(s.selectedObjectIds, id) ELSE <<id>>
  IN [s EXCEPT !.selectedObjectIds = sel, !.objects = MirrorSelection(s.objects, sel)]

\* selectObject(id, multiSelect)
SelectObject(s, id, multiSelect) ==
  LET sel == IF multiSelect
             THEN IF Includes(s.selectedObjectIds, id)
                  THEN SelectSeq(s.selectedObjectIds, LAMBDA x : x # id)
                  ELSE Append(s.selectedObjectIds, id)
             ELSE <<id>>
  IN [s EXCEPT !.selectedObjectIds = sel, !.objects = MirrorSelection(s.objects, sel)]

\* addObject(objectData) with newObjectId the outcome of generateId()
AddObject(s, objectData, newObjectId) ==
  LET newObject == Assign(objectData, [id |-> newObjectId])
      pushed == [s EXCEPT !.objects = Append(s.objects, newObject)]
  IN SaveToHistory(SelectObject(pushed, newObjectId, FALSE))

\* updateObject(id, updates)
UpdateObject(s, id, updates) ==
  LET index == FindIndex(s.objects, id)
      merged == IF index # 0
                THEN [s EXCEPT !.objects[index] = Assign(s.objects[index], updates)]
                ELSE s
  IN SaveToHistory(merged)

DeleteObjectKeepSelection(s, id) ==
  LET filtered == [s EXCEPT
        !.objects = SelectSeq(s.objects, LAMBDA obj : obj.id # id)]
  IN SaveToHistory(filtered)

\* deleteObject(id)
DeleteObject(s, id) ==
  LET filtered == [s EXCEPT
        !.objects = SelectSeq(s.objects, LAMBDA obj : obj.id # id),
        !.selectedObjectIds = SelectSeq(s.selectedObjectIds, LAMBDA selectedId : selectedId # id)]
  IN SaveToHistory(filtered)

RECURSIVE DeleteEach(_, _)
\* selectedObjectIds.forEach(id => get().deleteObject(id))
DeleteEach(s, ids) ==
  IF ids = <<>> THEN s ELSE DeleteEach(DeleteObject(s, Head(ids)), Tail(ids))

\* canUndo / canRedo
canUndo == historyIndex > 0
canRedo == historyIndex < Len(history) - 1

\* ----------------------------------------------------- history variables
\* last: the operation just performed, its id argument (0 when it has none,
\* the number of selected ids for deleteSelectedObjects)
\* and whether it started with the cursor behind the end of the history.
\* trail: progress through the sequence addObject; undo; redo - stage 1
\* after the add, 2 after the undo, 3 after the redo, 0 otherwise - with
\* the object count before the add and the collection right after it.
Did(op, id) == last' = [op |-> op, id |-> id, behind |-> canRedo]

NoTrail == [stage |-> 0, pre |-> 0, post |-> <<>>]

Install(s) ==
  /\ objects' = s.objects
  /\ selectedObjectIds' = s.selectedObjectIds
  /\ history' = s.history
  /\ historyIndex' = s.historyIndex

\* ----------------------------------------------------------------- Init
\* JSON.parse of the persisted 'tikzsketch-objects' text: nothing saved, or a
\* one-object list the store wrote earlier (any id, any selected flag)
PersistedObject == [id : generateId, selected : BOOLEAN, angleValue : {"180"}]

PersistedObjects == {<<>>} \cup {<<o>> : o \in PersistedObject}

Init ==
  /\ objects \in PersistedObjects
  /\ selectedObjectIds = <<>>
  /\ history = <<<<>>>>
  /\ historyIndex = 0
  /\ last = [op |-> "init", id |-> 0, behind |-> FALSE]
  /\ trail = NoTrail
  /\ isSelectionBoxActive = FALSE
  /\ selectionBoxStart = null
  /\ selectionBoxEnd = null
  /\ InitFlows
  /\ canvas = defaultCanvasSettings

\* -------------------------------------------------------------- actions
addObject(objectData, newObjectId) ==
  /\ Install(AddObject(Store, objectData, newObjectId))
  /\ Did("addObject", newObjectId)
  /\ trail' = [stage |-> 1, pre |-> Len(objects), post |-> objects']
  /\ UNCHANGED view

updateObject(id, updates) ==
  /\ Install(UpdateObject(Store, id, updates))
  /\ Did("updateObject", id)
  /\ trail' = NoTrail
  /\ UNCHANGED view

deleteObject(id) ==
  /\ Install(DeleteObject(Store, id))
  /\ Did("deleteObject", id)
  /\ trail' = NoTrail
  /\ UNCHANGED view

deleteSelectedObjects ==
  /\ Install(DeleteEach(Store, selectedObjectIds))
  /\ Did("deleteSelectedObjects", Len(selectedObjectIds))
  /\ trail' = NoTrail
  /\ UNCHANGED view

saveToHistory ==
  /\ Install(SaveToHistory(Store))
  /\ Did("saveToHistory", 0)
  /\ trail' = NoTrail
  /\ UNCHANGED view

undoKeepSelection ==
  /\ IF historyIndex > 0
     THEN /\ historyIndex' = historyIndex - 1
          /\ objects' = JsonCopy(history[historyIndex' + 1])
          /\ selectedObjectIds' = selectedObjectIds
          /\ UNCHANGED history
     ELSE UNCHANGED store
  /\ Did("undo", 0)
  /\ trail' = IF trail.stage = 1 THEN [trail EXCEPT !.stage = 2] ELSE NoTrail
  /\ UNCHANGED view

undo ==
  /\ IF historyIndex > 0
     THEN /\ historyIndex' = historyIndex - 1
          /\ objects' = ClearSelected(JsonCopy(history[historyIndex' + 1]))
          /\ selectedObjectIds' = <<>>
          /\ UNCHANGED history
     ELSE UNCHANGED store
  /\ Did("undo", 0)
  /\ trail' = IF trail.stage = 1 THEN [trail EXCEPT !.stage = 2] ELSE NoTrail
  /\ UNCHANGED view

redoSameSnapshot ==
  /\ IF historyIndex < Len(history) - 1
     THEN /\ historyIndex' = historyIndex + 1
          /\ objects' = ClearSelected(JsonCopy(history[historyIndex + 1]))
          /\ selectedObjectIds' = <<>>
          /\ UNCHANGED history
     ELSE UNCHANGED store
  /\ Did("redo", 0)
  /\ trail' = IF trail.stage = 2 THEN [trail EXCEPT !.stage = 3] ELSE NoTrail
  /\ UNCHANGED view

redo ==
  /\ IF historyIndex < Len(history) - 1
     THEN /\ historyIndex' = historyIndex + 1
          /\ objects' = ClearSelected(JsonCopy(history[historyIndex' + 1]))
          /\ selectedObjectIds' = <<>>
          /\ UNCHANGED history
     ELSE UNCHANGED store
  /\ Did("redo", 0)
  /\ trail' = IF trail.stage = 2 THEN [trail EXCEPT !.stage = 3] ELSE NoTrail
  /\ UNCHANGED view

\* the collection is emptied as an edit: a snapshot is pushed
clearCanvasAsEdit ==
  /\ Install(SaveToHistory([Store EXCEPT !.objects = <<>>,
                                         !.selectedObjectIds = <<>>]))
  /\ isSelectionBoxActive' = FALSE
  /\ selectionBoxStart' = null
  /\ selectionBoxEnd' = null
  /\ isDrawing' = FALSE
  /\ drawingStartPoint' = null
  /\ previewObject' = null
  /\ currentPolygonPoints' = <<>>
  /\ isPolygonDrawing' = FALSE
  /\ constructionMode' = "none"
  /\ constructionStep' = 0
  /\ constructionData' = null
  /\ isTextEditing' = FALSE
  /\ textEditorPosition' = null
  /\ UNCHANGED <<canvas, activeTool>>
  /\ Did("clearCanvas", 0)
  /\ trail' = NoTrail

clearCanvas ==
  /\ objects' = <<>>
  /\ selectedObjectIds' = <<>>
  /\ history' = <<<<>>>>
  /\ historyIndex' = 0
  /\ isSelectionBoxActive' = FALSE
  /\ selectionBoxStart' = null
  /\ selectionBoxEnd' = null
  /\ isDrawing' = FALSE
  /\ drawingStartPoint' = null
  /\ previewObject' = null
  /\ currentPolygonPoints' = <<>>
  /\ isPolygonDrawing' = FALSE
  /\ constructionMode' = "none"
  /\ constructionStep' = 0
  /\ constructionData' = null
  /\ isTextEditing' = FALSE
  /\ textEditorPosition' = null
  /\ UNCHANGED <<canvas, activeTool>>
  /\ Did("clearCanvas", 0)
  /\ trail' = NoTrail

\* --------------------------------------------------------- specifications
\* The bounded exploration stops committing once the cursor has reached
\* MaxCommits and stops adding once MaxObjects objects are live.
Room(k) == historyIndex + k <= MaxCommits

Next ==
  \/ \E objectData \in ObjectData, newObjectId \in generateId :
       Room(1) /\ Len(objects) < MaxObjects /\ addObject(objectData, newObjectId)
  \/ \E id \in generateId, updates \in Updates : Room(1) /\ updateObject(id, updates)
  \/ \E id \in generateId : Room(1) /\ deleteObject(id)
  \/ Room(Len(selectedObjectIds)) /\ deleteSelectedObjects
  \/ Room(1) /\ saveToHistory
  \/ undo
  \/ redo
  \/ clearCanvas

Spec == Init /\ [][Next]_vars

\* The history at full length: only snapshot commits of the loaded
\* collection and cursor moves, so that maxHistorySize commits are reached.
NextHistory ==
  \/ saveToHistory
  \/ undo
  \/ redo

SpecHistory == Init /\ [][NextHistory]_vars

\* ------------------------------------------------------------------ claims
Commits == {"addObject", "updateObject", "deleteObject", "saveToHistory"}

\* history[historyIndex] of the source
SnapshotAtCursor == history[historyIndex + 1]

\* C1: in every reachable state the history cursor satisfies
\* 0 <= historyIndex < history.length.
C1_CursorInRange == 0 <= historyIndex /\ historyIndex < Len(history)

\* C1 witness: an undo has brought the cursor down to 0 in a history of
\* several snapshots.
C1_Witness == last.op = "undo" /\ historyIndex = 0 /\ Len(history) >= 2

\* C2: immediately after addObject, updateObject or deleteObject (history
\* commit included) the snapshot at the cursor equals the live collection
\* field for field.
C2_SnapshotEqualsLive ==
  last.op \in {"addObject", "updateObject", "deleteObject"} => SnapshotAtCursor = objects

\* C3: addObject followed by undo leaves the live collection with the number
\* of objects it had before the add, also when the collection was loaded from
\* persisted storage.
C3_UndoAfterAddRestoresCount == trail.stage = 2 => Len(objects) = trail.pre

\* C4 as claimed: after addObject; undo; redo the live collection equals, in
\* every field of every object, the collection right after the add, and
\* equals the snapshot at the cursor.
C4_RedoRestoresPostAddExactly ==
  trail.stage = 3 => objects = trail.post /\ objects = SnapshotAtCursor

\* C4 amended: after addObject; undo; redo the snapshot at the cursor is the
\* one the add committed (the JSON copy of the collection right after the
\* add), the live collection equals it in every field except selected,
\* which is false on every object, and the selection is empty.
C4_RedoRestoresSnapshotDeselected ==
  trail.stage = 3 =>
    /\ SnapshotAtCursor = JsonCopy(trail.post)
    /\ objects = ClearSelected(SnapshotAtCursor)
    /\ selectedObjectIds = <<>>

\* C4 witness: add, undo and redo were performed and the live collection
\* differs from the one right after the add.
C4_Witness == trail.stage = 3 /\ objects # trail.post /\ Len(objects) >= 1

\* C5: a commit performed while the cursor is behind the end of the history
\* keeps the snapshots up to the cursor, discards the ones beyond it and
\* appends the new snapshot; afterwards the cursor is at the last entry and
\* canRedo is false.  undo and redo never change the history, so the
\* discarded snapshots cannot come back.
C5_CommitDiscardsRedoTail ==
  [][/\ (last'.op \in Commits /\ canRedo) =>
          /\ Len(history') = historyIndex + 2
          /\ SubSeq(history', 1, historyIndex + 1) = SubSeq(history, 1, historyIndex + 1)
          /\ history'[Len(history')] = JsonCopy(objects')
          /\ historyIndex' = Len(history') - 1
          /\ ~canRedo'
     /\ (last'.op \in {"undo", "redo"} => history' = history)]_vars

\* C5 witness: a commit has just been performed from a state whose cursor
\* was behind the end of the history.
C5_Witness == last.op \in Commits /\ last.behind /\ historyIndex = Len(history) - 1

\* C6: history.length never exceeds maxHistorySize; a commit on a full
\* history drops the oldest snapshot, and after every commit the cursor
\* designates the snapshot just committed, which is the newest entry.
C6_HistoryCapacity ==
  /\ [](Len(history) <= maxHistorySize)
  /\ [][last'.op = "saveToHistory" =>
          /\ historyIndex' = Len(history') - 1
          /\ history'[historyIndex' + 1] = JsonCopy(objects')
          /\ (Len(history) = maxHistorySize /\ ~canRedo) =>
                /\ Len(history') = maxHistorySize
                /\ SubSeq(history', 1, maxHistorySize - 1) = Tail(history)]_vars

\* C6 witness: the history is full and its oldest entry is no longer the
\* initial empty snapshot, so a commit has evicted.
C6_Witness ==
  last.op = "saveToHistory" /\ Len(history) = maxHistorySize /\ history[1] # <<>>

\* C7: undo with historyIndex > 0 moves the cursor down by one, makes the
\* live collection the snapshot at the new cursor with every selected flag
\* false and empties the selection; at 0 it changes nothing.  redo mirrors
\* it, bounded by history.length - 1.  canUndo and canRedo tell exactly
\* whether the call moves the cursor, and neither call changes the history.
C7_UndoRedoContract ==
  [][/\ (last'.op = "undo" /\ historyIndex > 0) =>
          /\ historyIndex' = historyIndex - 1
          /\ objects' = ClearSelected(history[historyIndex' + 1])
          /\ selectedObjectIds' = <<>>
          /\ \A i \in 1..Len(objects') : ~objects'[i].selected
     /\ (last'.op = "undo" /\ historyIndex = 0) => UNCHANGED store
     /\ (last'.op = "redo" /\ historyIndex < Len(history) - 1) =>
          /\ historyIndex' = historyIndex + 1
          /\ objects' = ClearSelected(history[historyIndex' + 1])
          /\ selectedObjectIds' = <<>>
          /\ \A i \in 1..Len(objects') : ~objects'[i].selected
     /\ (last'.op = "redo" /\ historyIndex >= Len(history) - 1) => UNCHANGED store
     /\ (last'.op = "undo" => (canUndo <=> historyIndex' # historyIndex))
     /\ (last'.op = "redo" => (canRedo <=> historyIndex' # historyIndex))
     /\ (last'.op \in {"undo", "redo"} => history' = history)]_vars

\* C7 witness: an undo right after an addObject (which had selected the new
\* object) has restored a non-empty snapshot and emptied the selection.
C7_Witness == trail.stage = 2 /\ Len(objects) >= 1 /\ selectedObjectIds = <<>>

\* C8: addObject appends exactly one object at the end, leaves the existing
\* objects unchanged except for their selected flag, gives the new object an
\* id different from every id already in the collection, makes it the sole
\* selection and commits exactly one snapshot.
C8_AddObjectContract ==
  [][last'.op = "addObject" =>
       /\ Len(objects') = Len(objects) + 1
       /\ \A i \in 1..Len(objects) :
            objects'[i] = [objects[i] EXCEPT !.selected = objects'[i].selected]
       /\ objects'[Len(objects')].id = last'.id
       /\ last'.id \notin IdsOf(objects)
       /\ selectedObjectIds' = <<last'.id>>
       /\ history' = Append(SubSeq(history, 1, historyIndex + 1), JsonCopy(objects'))
       /\ historyIndex' = Len(history') - 1]_vars

\* C9: updateObject and deleteObject called with an id that matches no
\* object change neither the collection, the selection, the history nor
\* historyIndex.
C9_MissingIdIsNoOp ==
  [][(last'.op \in {"updateObject", "deleteObject"} /\ last'.id \notin IdsOf(objects))
       => UNCHANGED store]_vars

\* C10: no two objects of the live collection share an id, and updateObject
\* with any partial payload leaves the id of every object as it was.
C10_IdsUniqueAndImmutable ==
  /\ [](\A i, j \in 1..Len(objects) : i # j => objects[i].id # objects[j].id)
  /\ [][last'.op = "updateObject" =>
          \A i \in 1..Len(objects) : objects'[i].id = objects[i].id]_vars

\* C11: in every reachable state the selection is mirrored on the objects:
\* an object's selected flag is true if and only if its id is in
\* selectedObjectIds.
C11_SelectionMirrored ==
  \A i \in 1..Len(objects) :
    objects[i].selected <=> Includes(selectedObjectIds, objects[i].id)

\* ------------------------------------------------- selection operations
\* selectObjects(ids)
SelectObjects(s, ids) ==
  [s EXCEPT !.selectedObjectIds = ids, !.objects = MirrorSelection(s.objects, ids)]

\* clearSelection
ClearSelection(s) ==
  [s EXCEPT !.selectedObjectIds = <<>>, !.objects = ClearSelected(s.objects)]

\* selectAll: allIds = objects.map(obj => obj.id), every flag set
SelectAll(s) ==
  [s EXCEPT !.selectedObjectIds = [i \in 1..Len(s.objects) |-> s.objects[i].id],
            !.objects = [i \in 1..Len(s.objects) |-> [s.objects[i] EXCEPT !.selected = TRUE]]]

selectObject(id, multiSelect) ==
  /\ Install(SelectObject(Store, id, multiSelect))
  /\ Did(IF multiSelect THEN "selectObject(multi)" ELSE "selectObject", id)
  /\ trail' = NoTrail
  /\ UNCHANGED view

clearSelection ==
  /\ Install(ClearSelection(Store))
  /\ Did("clearSelection", 0)
  /\ trail' = NoTrail
  /\ UNCHANGED view

selectAll ==
  /\ Install(SelectAll(Store))
  /\ Did("selectAll", 0)
  /\ trail' = NoTrail
  /\ UNCHANGED view

\* The selection and deletion operations on a loaded collection of up to
\* MaxObjects objects.
PersistedCollections ==
  UNION {[1..n -> PersistedObject] : n \in 0..MaxObjects}

InitSelection ==
  /\ objects \in PersistedCollections
  /\ selectedObjectIds = <<>>
  /\ history = <<<<>>>>
  /\ historyIndex = 0
  /\ last = [op |-> "init", id |-> 0, behind |-> FALSE]
  /\ trail = NoTrail
  /\ isSelectionBoxActive = FALSE
  /\ selectionBoxStart = null
  /\ selectionBoxEnd = null
  /\ InitFlows
  /\ canvas = defaultCanvasSettings

NextSelection ==
  \/ \E id \in generateId, multiSelect \in BOOLEAN : selectObject(id, multiSelect)
  \/ clearSelection
  \/ selectAll
  \/ \E id \in generateId : Room(1) /\ deleteObject(id)
  \/ Room(Len(selectedObjectIds)) /\ deleteSelectedObjects

SpecSelection == InitSelection /\ [][NextSelection]_vars

\* the ids of a selection list, as a set
Selected(sel) == {sel[i] : i \in 1..Len(sel)}

\* every object is as it was except, possibly, for its selected flag
OnlySelectedFlagsChange ==
  /\ Len(objects') = Len(objects)
  /\ \A i \in 1..Len(objects) :
       objects'[i] = [objects[i] EXCEPT !.selected = objects'[i].selected]

\* C12: selectObject(id) makes the selection exactly {id}; selectObject(id,
\* true) toggles the membership of id and of no other id; selectAll selects
\* the ids of all objects; clearSelection empties the selection; none of them
\* changes history, historyIndex or an object field other than selected.
C12_SelectionOperations ==
  [][/\ last'.op = "selectObject" => selectedObjectIds' = <<last'.id>>
     /\ last'.op = "selectObject(multi)" =>
          /\ last'.id \in Selected(selectedObjectIds') <=> last'.id \notin Selected(selectedObjectIds)
          /\ Selected(selectedObjectIds') \ {last'.id} = Selected(selectedObjectIds) \ {last'.id}
     /\ last'.op = "selectAll" => Selected(selectedObjectIds') = IdsOf(objects)
     /\ last'.op = "clearSelection" => selectedObjectIds' = <<>>
     /\ last'.op \in {"selectObject", "selectObject(multi)", "selectAll", "clearSelection"} =>
          /\ UNCHANGED <<history, historyIndex>>
          /\ OnlySelectedFlagsChange]_vars

\* C12 witness: a multi-select toggle has taken an id out of the selection
\* and left another id selected.
C12_Witness ==
  /\ last.op = "selectObject(multi)"
  /\ last.id \notin Selected(selectedObjectIds)
  /\ selectedObjectIds # <<>>

\* the history after k commits: untouched when k = 0; otherwise the entries
\* up to the cursor are kept, k snapshots follow them and the cursor is on
\* the last one
Committed(k) ==
  IF k = 0
  THEN UNCHANGED <<history, historyIndex>>
  ELSE /\ historyIndex' = historyIndex + k
       /\ Len(history') = historyIndex' + 1
       /\ SubSeq(history', 1, historyIndex + 1) = SubSeq(history, 1, historyIndex + 1)

\* the collection without the objects whose id is among the first j ids of sel
Without(objs, sel, j) ==
  SelectSeq(objs, LAMBDA obj : obj.id \notin {sel[i] : i \in 1..j})

\* C15: deleteObject(id) for an existing id removes the object carrying that
\* id and nothing else, takes id out of the selection and commits one
\* snapshot; deleteSelectedObjects with k selected ids removes every object
\* whose id is selected, leaves the others in place and in order, leaves the
\* selection empty and commits k snapshots, one per deleted id.
C15_DeleteContract ==
  [][/\ (last'.op = "deleteObject" /\ last'.id \in IdsOf(objects)) =>
          /\ objects' = Without(objects, <<last'.id>>, 1)
          /\ Len(objects') < Len(objects)
          /\ selectedObjectIds' = SelectSeq(selectedObjectIds, LAMBDA x : x # last'.id)
          /\ Committed(1)
          /\ history'[historyIndex' + 1] = JsonCopy(objects')
     /\ last'.op = "deleteSelectedObjects" =>
          /\ objects' = Without(objects, selectedObjectIds, Len(selectedObjectIds))
          /\ selectedObjectIds' = <<>>
          /\ Committed(Len(selectedObjectIds))
          /\ \A j \in 1..Len(selectedObjectIds) :
               history'[historyIndex + 1 + j] = JsonCopy(Without(objects, selectedObjectIds, j))]_vars

\* C15 witness: deleteSelectedObjects has just deleted two selected objects
\* and committed two snapshots.
C15_Witness ==
  /\ last.op = "deleteSelectedObjects"
  /\ last.id = 2
  /\ historyIndex = 2
  /\ Len(history[2]) = 1
  /\ objects = <<>>

\* ------------------------------------------------------- selection box
\* canvas coordinates of the bounded exploration
Coord == 0..MaxCoord
Point == [x : Coord, y : Coord]
origin == [x |-> 0, y |-> 0]

\* the object types finishSelectionBox tests by their anchor position: its
\* cases 'point', 'rectangle', 'circle', 'text' and, through default, every
\* other type but 'line' (here 'angle' and 'polygon')
AnchoredTypes == {"point", "rectangle", "circle", "text", "angle"}

\* Shapes as the drawing tools and the drag handler leave them: an anchored
\* object has no points; a line has two points, a polygon three (here a
\* triangle with its last vertex at the origin), and their position is the
\* first point (as drawn) or {x: 0, y: 0} (after a drag).
BoxShapes ==
  {[type |-> t, position |-> p, points |-> <<>>] : t \in AnchoredTypes, p \in Point}
  \cup UNION {{[type |-> "line", position |-> a, points |-> <<b, c>>] : a \in {b, origin}} :
                b \in Point, c \in Point}
  \cup UNION {{[type |-> "polygon", position |-> a, points |-> <<b, c, origin>>] : a \in {b, origin}} :
                b \in Point, c \in Point}

BoxObject(id, shape, visible) ==
  [id |-> id, selected |-> FALSE, angleValue |-> "180", visible |-> visible,
   type |-> shape.type, position |-> shape.position, points |-> shape.points]

\* the loaded collections: one object of any shape, or two points
BoxScenes ==
  {<<BoxObject(1, shape, visible)>> : shape \in BoxShapes, visible \in BOOLEAN}
  \cup {<<BoxObject(1, [type |-> "point", position |-> p, points |-> <<>>], TRUE),
          BoxObject(2, [type |-> "point", position |-> q, points |-> <<>>], visible)>> :
          p \in Point, q \in Point, visible \in BOOLEAN}

Min(a, b) == IF a <= b THEN a ELSE b
Max(a, b) == IF a >= b THEN a ELSE b

\* point.x >= minX && point.x <= maxX && point.y >= minY && point.y <= maxY
Inside(point, minX, maxX, minY, maxY) ==
  /\ point.x >= minX /\ point.x <= maxX
  /\ point.y >= minY /\ point.y <= maxY

\* the switch over obj.type of finishSelectionBox
IsInBox(obj, minX, maxX, minY, maxY) ==
  IF obj.type = "line"
  THEN /\ Len(obj.points) >= 2
       /\ \E i \in 1..Len(obj.points) : Inside(obj.points[i], minX, maxX, minY, maxY)
  ELSE Inside(obj.position, minX, maxX, minY, maxY)

BoxSelectionNoMinMax(objs, start, end) ==
  LET inBox == SelectSeq(objs, LAMBDA obj :
                 obj.visible /\ IsInBox(obj, start.x, end.x, start.y, end.y))
  IN [i \in 1..Len(inBox) |-> inBox[i].id]

\* selectedIds of finishSelectionBox for the corners start and end
BoxSelection(objs, start, end) ==
  LET minX == Min(start.x, end.x)
      maxX == Max(start.x, end.x)
      minY == Min(start.y, end.y)
      maxY == Max(start.y, end.y)
      inBox == SelectSeq(objs, LAMBDA obj :
                 obj.visible /\ IsInBox(obj, minX, maxX, minY, maxY))
  IN [i \in 1..Len(inBox) |-> inBox[i].id]

startSelectionBox(point) ==
  /\ isSelectionBoxActive' = TRUE
  /\ selectionBoxStart' = point
  /\ UNCHANGED <<selectionBoxEnd, canvas, flows, textEditing, store>>
  /\ Did("startSelectionBox", 0)
  /\ trail' = NoTrail

updateSelectionBox(point) ==
  /\ selectionBoxEnd' = point
  /\ UNCHANGED <<isSelectionBoxActive, selectionBoxStart, canvas, flows, textEditing, store>>
  /\ Did("updateSelectionBox", 0)
  /\ trail' = NoTrail

\* trail stage 4: a selection box has been committed, with its two corners
finishSelectionBox ==
  /\ IF selectionBoxStart # null /\ selectionBoxEnd # null
     THEN Install(SelectObjects(Store,
            BoxSelection(objects, selectionBoxStart, selectionBoxEnd)))
     ELSE UNCHANGED store
  /\ isSelectionBoxActive' = FALSE
  /\ selectionBoxStart' = null
  /\ selectionBoxEnd' = null
  /\ UNCHANGED <<canvas, flows, textEditing>>
  /\ Did("finishSelectionBox", 0)
  /\ trail' = [stage |-> 4, pre |-> selectionBoxStart, post |-> selectionBoxEnd]

cancelSelectionBox ==
  /\ isSelectionBoxActive' = FALSE
  /\ selectionBoxStart' = null
  /\ selectionBoxEnd' = null
  /\ UNCHANGED <<canvas, flows, textEditing, store>>
  /\ Did("cancelSelectionBox", 0)
  /\ trail' = NoTrail

InitBox ==
  /\ objects \in BoxScenes
  /\ selectedObjectIds = <<>>
  /\ history = <<<<>>>>
  /\ historyIndex = 0
  /\ last = [op |-> "init", id |-> 0, behind |-> FALSE]
  /\ trail = NoTrail
  /\ isSelectionBoxActive = FALSE
  /\ selectionBoxStart = null
  /\ selectionBoxEnd = null
  /\ InitFlows
  /\ canvas = defaultCanvasSettings

NextBox ==
  \/ \E point \in Point : startSelectionBox(point)
  \/ \E point \in Point : updateSelectionBox(point)
  \/ finishSelectionBox
  \/ cancelSelectionBox

SpecBox == InitBox /\ [][NextBox]_vars

\* the test the selection box is documented to make: an object of a
\* multi-point type (line, polygon) by its constituent points, any other
\* object by its anchor position
LiesInBox(obj, start, end) ==
  LET minX == Min(start.x, end.x)
      maxX == Max(start.x, end.x)
      minY == Min(start.y, end.y)
      maxY == Max(start.y, end.y)
  IN IF obj.type \in {"line", "polygon"}
     THEN \E i \in 1..Len(obj.points) : Inside(obj.points[i], minX, maxX, minY, maxY)
     ELSE Inside(obj.position, minX, maxX, minY, maxY)

BoxCommitted ==
  last'.op = "finishSelectionBox" /\ selectionBoxStart # null /\ selectionBoxEnd # null

\* C13: finishSelectionBox with both corners set replaces the selection by
\* exactly the ids of the visible objects whose anchor position - or, for a
\* line or a polygon, at least one of whose points - lies in the closed
\* rectangle spanned by the corners; an invisible object is never selected.
C13_BoxSelectsVisibleInside ==
  [][BoxCommitted =>
       \A i \in 1..Len(objects) :
         Includes(selectedObjectIds', objects[i].id) <=>
           (objects[i].visible /\ LiesInBox(objects[i], selectionBoxStart, selectionBoxEnd))]_vars

\* C14: committing the box with the corners (p, q) selects the same ids as
\* committing it with (q, p) and as committing it with the corners
\* (min x, min y), (max x, max y).
C14_BoxOrderInsensitive ==
  [][BoxCommitted =>
       LET p == selectionBoxStart
           q == selectionBoxEnd
           lower == [x |-> Min(p.x, q.x), y |-> Min(p.y, q.y)]
           upper == [x |-> Max(p.x, q.x), y |-> Max(p.y, q.y)]
       IN /\ selectedObjectIds' = BoxSelection(objects, q, p)
          /\ selectedObjectIds' = BoxSelection(objects, lower, upper)]_vars

\* C14 witness: a box dragged from right to left has been committed and
\* has selected one of two visible objects.
C14_Witness ==
  /\ trail.stage = 4
  /\ trail.pre # null /\ trail.post # null
  /\ trail.pre.x > trail.post.x
  /\ Len(objects) = 2
  /\ \A i \in 1..Len(objects) : objects[i].visible
  /\ Len(selectedObjectIds) = 1

\* ------------------------------------------------------------ constraints
\* The constraint kinds, the ids a constraint may name (0 is the id of no
\* object) and the optional offset (null when the constraint stores none).
ConstraintTypes == {"center", "start_point", "end_point"}
SceneIds == 1..3
TargetIds == {0} \cup SceneIds
unit == [x |-> 1, y |-> 0]
Offsets == {null, unit}
Constraint == [type : ConstraintTypes, targetId : TargetIds, offset : Offsets]

\* A collection of a point, a circle and a line, none constrained yet; an
\* absent constraints list and an empty one are both the empty sequence.
ConstraintScene ==
  << [id |-> 1, selected |-> FALSE, angleValue |-> "180", visible |-> TRUE,
      type |-> "point", position |-> origin, points |-> <<>>, constraints |-> <<>>],
     [id |-> 2, selected |-> FALSE, angleValue |-> "180", visible |-> TRUE,
      type |-> "circle", position |-> [x |-> 1, y |-> 1], points |-> <<>>,
      constraints |-> <<>>],
     [id |-> 3, selected |-> FALSE, angleValue |-> "180", visible |-> TRUE,
      type |-> "line", position |-> [x |-> 0, y |-> 1],
      points |-> <<[x |-> 0, y |-> 1], [x |-> 1, y |-> 0]>>, constraints |-> <<>>] >>

\* { ...target.position } plus the offset, when the constraint has one
WithOffset(position, offset) ==
  IF offset = null THEN position
  ELSE [x |-> position.x + offset.x, y |-> position.y + offset.y]

\* addConstraint(objectId, constraint) on the collection
AddConstraint(objs, objectId, constraint) ==
  LET index == FindIndex(objs, objectId)
  IN IF index = 0 THEN objs
     ELSE [objs EXCEPT ![index].constraints = Append(@, constraint)]

\* removeConstraint(objectId, targetId) on the collection
RemoveConstraint(objs, objectId, targetId) ==
  LET index == FindIndex(objs, objectId)
  IN IF index = 0 THEN objs
     ELSE [objs EXCEPT ![index].constraints = SelectSeq(@, LAMBDA c : c.targetId # targetId)]

\* the switch over constraint.type of updateConstrainedObjects
ApplyConstraint(obj, constraint, target) ==
  CASE constraint.type = "center" /\ obj.type = "circle" ->
         [obj EXCEPT !.position = WithOffset(target.position, constraint.offset)]
    [] constraint.type = "start_point" /\ obj.type = "line" /\ obj.points # <<>> ->
         [obj EXCEPT !.points[1] = target.position, !.position = target.position]
    [] constraint.type = "end_point" /\ obj.type = "line" /\ obj.points # <<>> ->
         [obj EXCEPT !.points[2] = target.position]
    [] OTHER -> obj

\* draft.objects.find(o => o.id === objectId), null for undefined
Find(objs, objectId) ==
  LET index == FindIndex(objs, objectId)
  IN IF index = 0 THEN null ELSE objs[index]

ConstraintStepNoTargetCheck(objs, i, constraint, objectId) ==
  LET found == Find(objs, objectId)
      target == IF found = null THEN [position |-> origin] ELSE found
  IN IF constraint.targetId # objectId THEN objs
     ELSE [objs EXCEPT ![i] = ApplyConstraint(objs[i], constraint, target)]

\* the callback of obj.constraints.forEach for object i of the draft
ConstraintStep(objs, i, constraint, objectId) ==
  LET target == Find(objs, objectId)
  IN IF constraint.targetId # objectId THEN objs
     ELSE IF target = null THEN objs
     ELSE [objs EXCEPT ![i] = ApplyConstraint(objs[i], constraint, target)]

RECURSIVE Propagate(_, _, _, _)
\* The two nested forEach loops of updateConstrainedObjects, from constraint
\* k of object i on; each step works on the draft as updated so far.
Propagate(objs, i, k, objectId) ==
  IF i > Len(objs) THEN objs
  ELSE IF k > Len(objs[i].constraints) THEN Propagate(objs, i + 1, 1, objectId)
  ELSE Propagate(ConstraintStep(objs, i, objs[i].constraints[k], objectId), i, k + 1, objectId)

\* updateConstrainedObjects(objectId) on the collection
UpdateConstrainedObjects(objs, objectId) == Propagate(objs, 1, 1, objectId)

addConstraint(objectId, constraint) ==
  /\ objects' = AddConstraint(objects, objectId, constraint)
  /\ UNCHANGED <<selectedObjectIds, history, historyIndex, view>>
  /\ Did("addConstraint", objectId)
  /\ trail' = NoTrail

removeConstraint(objectId, targetId) ==
  /\ objects' = RemoveConstraint(objects, objectId, targetId)
  /\ UNCHANGED <<selectedObjectIds, history, historyIndex, view>>
  /\ Did("removeConstraint", objectId)
  /\ trail' = NoTrail

updateConstrainedObjectsAliased(objectId) ==
  /\ objects' = UpdateConstrainedObjects(objects, objectId)
  /\ history' = [history EXCEPT ![historyIndex + 1] = JsonCopy(objects')]
  /\ UNCHANGED <<selectedObjectIds, historyIndex, view>>
  /\ Did("updateConstrainedObjects", objectId)
  /\ trail' = NoTrail

updateConstrainedObjects(objectId) ==
  /\ objects' = UpdateConstrainedObjects(objects, objectId)
  /\ UNCHANGED <<selectedObjectIds, history, historyIndex, view>>
  /\ Did("updateConstrainedObjects", objectId)
  /\ trail' = NoTrail

InitConstraints ==
  /\ objects = ConstraintScene
  /\ selectedObjectIds = <<>>
  /\ history = <<<<>>>>
  /\ historyIndex = 0
  /\ last = [op |-> "init", id |-> 0, behind |-> FALSE]
  /\ trail = NoTrail
  /\ isSelectionBoxActive = FALSE
  /\ selectionBoxStart = null
  /\ selectionBoxEnd = null
  /\ InitFlows
  /\ canvas = defaultCanvasSettings

\* every coordinate of the collection is at most MaxCoord + 1
InRange(objs) ==
  \A i \in 1..Len(objs) :
    /\ objs[i].position.x <= MaxCoord + 1
    /\ \A j \in 1..Len(objs[i].points) : objs[i].points[j].x <= MaxCoord + 1

\* the kinds an object of this type follows, one constraint per kind
Follows(objs, objectId, constraint) ==
  \E i \in 1..Len(objs) :
    /\ objs[i].id = objectId
    /\ \/ (objs[i].type = "circle" /\ constraint.type = "center")
       \/ (objs[i].type = "line" /\ constraint.type # "center")
    /\ \A k \in 1..Len(objs[i].constraints) : objs[i].constraints[k].type # constraint.type

\* Constraints are declared before anything is propagated or deleted.
Declaring == last.op \in {"init", "addConstraint", "removeConstraint"}

\* The exploration declares constraints on the point and the circle (and on
\* the id of no object) and stops propagating when a coordinate would leave
\* the range.
NextConstraints ==
  \/ \E objectId \in SceneIds, constraint \in Constraint :
       /\ Declaring
       /\ Follows(objects, objectId, constraint)
       /\ constraint.targetId \in 0..2
       /\ addConstraint(objectId, constraint)
  \/ \E objectId \in SceneIds, targetId \in TargetIds :
       Declaring /\ removeConstraint(objectId, targetId)
  \/ \E objectId \in TargetIds :
       InRange(UpdateConstrainedObjects(objects, objectId)) /\ updateConstrainedObjects(objectId)
  \/ \E id \in SceneIds : Room(1) /\ deleteObject(id)

SpecConstraints == InitConstraints /\ [][NextConstraints]_vars

Propagated == last'.op = "updateConstrainedObjects"

\* object i of the collection carries a constraint whose targetId is id
Targets(objs, i, id) ==
  \E k \in 1..Len(objs[i].constraints) : objs[i].constraints[k].targetId = id

\* object i of the collection carries a constraint on the id of no object
HasDangling(objs, i) ==
  \E k \in 1..Len(objs[i].constraints) : objs[i].constraints[k].targetId \notin IdsOf(objs)

\* C16: after updateConstrainedObjects(T) every dependent with a constraint
\* (kind, targetId = T, offset o) has its followed coordinate at T's position
\* plus o - a circle's position for center, a line's points[0] and position
\* for start_point, a line's points[1] for end_point.
C16_OffsetAppliedForEveryKind ==
  [][(Propagated /\ last'.id \in IdsOf(objects)) =>
       \A i \in 1..Len(objects) : \A k \in 1..Len(objects[i].constraints) :
         LET constraint == objects[i].constraints[k]
             followed == WithOffset(Find(objects', last'.id).position, constraint.offset)
         IN constraint.targetId = last'.id =>
              /\ (constraint.type = "center" /\ objects[i].type = "circle") =>
                   objects'[i].position = followed
              /\ (constraint.type = "start_point" /\ objects[i].type = "line") =>
                   objects'[i].points[1] = followed /\ objects'[i].position = followed
              /\ (constraint.type = "end_point" /\ objects[i].type = "line") =>
                   objects'[i].points[2] = followed]_vars

\* C17: updateConstrainedObjects(T) changes only objects that carry a
\* constraint whose targetId is T - so not an object constrained to a
\* dependent of T only - and changes neither T itself, nor the selection, the
\* history or historyIndex.
C17_SinglePassFrame ==
  [][Propagated =>
       /\ Len(objects') = Len(objects)
       /\ \A i \in 1..Len(objects) :
            (~Targets(objects, i, last'.id) \/ objects[i].id = last'.id) => objects'[i] = objects[i]
       /\ UNCHANGED <<selectedObjectIds, history, historyIndex>>]_vars

\* deleteObject on a constraint target leaves exactly the other objects,
\* each as it was
DeletionSparesDependents ==
  (last'.op = "deleteObject" /\ \E i \in 1..Len(objects) : Targets(objects, i, last'.id)) =>
    objects' = Without(objects, <<last'.id>>, 1)

\* C18: an object that carries a constraint on the id of no object keeps its
\* position and points when updateConstrainedObjects is called with that id
\* or with any other id; deleteObject on a constraint target does not alter
\* its dependents.
C18_DanglingHarmlessForAnyId ==
  [][/\ Propagated =>
          /\ Len(objects') = Len(objects)
          /\ \A i \in 1..Len(objects) : HasDangling(objects, i) =>
               /\ objects'[i].position = objects[i].position
               /\ objects'[i].points = objects[i].points
     /\ DeletionSparesDependents]_vars

\* C18 as amended: updateConstrainedObjects called with the id of no object
\* changes nothing; called with any id, it leaves the position and points of
\* an object with a dangling constraint unchanged unless that object also
\* carries a constraint on the id it is called with; deleteObject on a
\* constraint target does not alter its dependents.
C18_DanglingConstraintsAreNoOps ==
  [][/\ (Propagated /\ last'.id \notin IdsOf(objects)) => objects' = objects
     /\ Propagated =>
          /\ Len(objects') = Len(objects)
          /\ \A i \in 1..Len(objects) :
               (HasDangling(objects, i) /\ ~Targets(objects, i, last'.id)) =>
                 /\ objects'[i].position = objects[i].position
                 /\ objects'[i].points = objects[i].points
     /\ DeletionSparesDependents]_vars

\* C18 witness: updateConstrainedObjects has been called with the id of a
\* deleted object that a remaining object is still constrained to.
C18_Witness ==
  /\ last.op = "updateConstrainedObjects"
  /\ last.id # 0
  /\ last.id \notin IdsOf(objects)
  /\ \E i \in 1..Len(objects) : Targets(objects, i, last.id)

\* Snapshots and uncommitted changes: the line is constrained to the point
\* and released again, the constraint is propagated, the line is selected
\* and deselected, and the collection is committed, undone and redone.
NextSnapshots ==
  \/ LET constraint == [type |-> "start_point", targetId |-> 1, offset |-> null]
     IN Follows(objects, 3, constraint) /\ addConstraint(3, constraint)
  \/ removeConstraint(3, 1)
  \/ updateConstrainedObjects(1)
  \/ selectObject(3, FALSE)
  \/ clearSelection
  \/ Room(1) /\ saveToHistory
  \/ undo
  \/ redo

SpecSnapshots == InitConstraints /\ [][NextSnapshots]_vars

\* C19: no operation alters a stored snapshot: every history entry that
\* survives an operation (is neither truncated as redo tail nor evicted) has
\* the content it had before it, and the operations that do not commit -
\* selection changes, addConstraint, removeConstraint,
\* updateConstrainedObjects, undo and redo - leave the history as it is.
C19_SnapshotsImmutable ==
  [][/\ \/ history' = history
        \/ \E shift \in {0, 1} :
             /\ Len(history') - 1 + shift <= Len(history)
             /\ \A i \in 1..(Len(history') - 1) : history'[i] = history[i + shift]
     /\ last'.op \in {"selectObject", "clearSelection", "addConstraint", "removeConstraint",
                      "updateConstrainedObjects", "undo", "redo"} => history' = history]_vars

\* C19 witness: a propagation has changed the live collection after a
\* commit, so that it differs from the non-empty snapshot at the cursor.
C19_Witness ==
  /\ last.op = "updateConstrainedObjects"
  /\ Len(history) >= 2
  /\ SnapshotAtCursor # <<>>
  /\ SnapshotAtCursor # JsonCopy(objects)

\* ------------------------------------------------------ canvas operations
\* zoom arguments and persisted zoom values, in tenths: 0.0 to MaxZoom / 10
Zooms == 0..MaxZoom

\* the stage sizes of resetView and centerView (even, so that the centre
\* has whole coordinates)
StageSizes == {[width |-> 2 * w, height |-> 2 * h] : w \in Coord, h \in Coord}

\* Partial<CanvasSettings> payloads and persisted 'tikzsketch-canvas' values
CanvasSettings == [zoom : Zooms] \cup [pan : Point] \cup [gridVisible : BOOLEAN]

\* Math.max(0.1, Math.min(5, zoom)), in tenths
ClampZoom(zoom) == Max(1, Min(50, zoom))

\* { x: stageSize.width / 2, y: stageSize.height / 2 }
Centre(stageSize) == [x |-> stageSize.width \div 2, y |-> stageSize.height \div 2]

updateCanvasSettings(settings) ==
  /\ canvas' = Assign(canvas, settings)
  /\ UNCHANGED <<store, selectionBox, flows, textEditing>>
  /\ Did("updateCanvasSettings", 0)
  /\ trail' = NoTrail

setZoom(zoom) ==
  /\ canvas' = [canvas EXCEPT !.zoom = ClampZoom(zoom)]
  /\ UNCHANGED <<store, selectionBox, flows, textEditing>>
  /\ Did("setZoom", 0)
  /\ trail' = NoTrail

setPan(pan) ==
  /\ canvas' = [canvas EXCEPT !.pan = pan]
  /\ UNCHANGED <<store, selectionBox, flows, textEditing>>
  /\ Did("setPan", 0)
  /\ trail' = NoTrail

\* resetView(stageSize), stageSize = null when the argument is omitted
resetView(stageSize) ==
  /\ canvas' = [canvas EXCEPT !.zoom = 10,
                              !.pan = IF stageSize # null THEN Centre(stageSize)
                                      ELSE [x |-> 400, y |-> 300]]
  /\ UNCHANGED <<store, selectionBox, flows, textEditing>>
  /\ Did("resetView", 0)
  /\ trail' = NoTrail

centerView(stageSize) ==
  /\ canvas' = [canvas EXCEPT !.pan = Centre(stageSize)]
  /\ UNCHANGED <<store, selectionBox, flows, textEditing>>
  /\ Did("centerView", 0)
  /\ trail' = NoTrail

\* startup: nothing saved, or { ...defaultCanvasSettings, ...canvas } for a
\* saved value
InitCanvas ==
  /\ canvas \in {defaultCanvasSettings}
                 \cup {Assign(defaultCanvasSettings, saved) : saved \in CanvasSettings}
  /\ objects = <<>>
  /\ selectedObjectIds = <<>>
  /\ history = <<<<>>>>
  /\ historyIndex = 0
  /\ last = [op |-> "init", id |-> 0, behind |-> FALSE]
  /\ trail = NoTrail
  /\ isSelectionBoxActive = FALSE
  /\ selectionBoxStart = null
  /\ selectionBoxEnd = null
  /\ InitFlows

NextCanvas ==
  \/ \E settings \in CanvasSettings : updateCanvasSettings(settings)
  \/ \E zoom \in Zooms : setZoom(zoom)
  \/ \E pan \in Point : setPan(pan)
  \/ \E stageSize \in StageSizes \cup {null} : resetView(stageSize)
  \/ \E stageSize \in StageSizes : centerView(stageSize)

SpecCanvas == InitCanvas /\ [][NextCanvas]_vars

\* C20: in every state reachable through the canvas operations and the
\* startup merge of persisted settings, canvas.zoom lies in [0.1, 5.0]
\* (1 to 50 tenths).
C20_ZoomClamped == 1 <= canvas.zoom /\ canvas.zoom <= 50

\* ----------------------------------------------------------- startup load
\* localStorage.getItem results: "absent" for null (nothing saved), or a
\* saved text.  The texts: empty, not JSON, and JSON for null, a number, an
\* object without the expected fields, an object with a zoom, an empty
\* array and an array of one object.
SavedTexts ==
  {"absent", "", "{", "null", "5", "{}", "{\"zoom\":2}", "[]", "[{\"id\":1}]"}

\* JSON.parse(text): the JavaScript value by kind, kind "SyntaxError" when
\* parse throws
JsonParse(text) ==
  CASE text = "null" -> [kind |-> "null", items |-> <<>>, fields |-> <<>>]
    [] text = "5" -> [kind |-> "number", items |-> <<>>, fields |-> <<>>]
    [] text = "{}" -> [kind |-> "object", items |-> <<>>, fields |-> <<>>]
    [] text = "{\"zoom\":2}" ->
         [kind |-> "object", items |-> <<>>, fields |-> [zoom |-> 20]]
    [] text = "[]" -> [kind |-> "array", items |-> <<>>, fields |-> <<>>]
    [] text = "[{\"id\":1}]" ->
         [kind |-> "array", fields |-> <<>>,
          items |-> <<[id |-> 1, selected |-> FALSE, angleValue |-> "180"]>>]
    [] OTHER -> [kind |-> "SyntaxError", items |-> <<>>, fields |-> <<>>]

\* the initial objects: [] as a JavaScript value
emptyArray == [kind |-> "array", items |-> <<>>, fields |-> <<>>]

\* if (savedObjects) { try { setState({ objects: JSON.parse(savedObjects) }) }
\* catch { warn } }: the objects value of the store after the load
LoadObjects(savedObjects) ==
  IF savedObjects \in {"absent", ""} THEN emptyArray
  ELSE LET parsed == JsonParse(savedObjects)
       IN IF parsed.kind = "SyntaxError" THEN emptyArray ELSE parsed

\* if (savedCanvas) { try { setState({ canvas: { ...defaultCanvasSettings,
\* ...JSON.parse(savedCanvas) } }) } catch { warn } }: spreading a value
\* that is not an object with fields adds nothing
LoadCanvas(savedCanvas) ==
  IF savedCanvas \in {"absent", ""} THEN defaultCanvasSettings
  ELSE LET parsed == JsonParse(savedCanvas)
       IN IF parsed.kind = "SyntaxError" THEN defaultCanvasSettings
          ELSE Assign(defaultCanvasSettings, parsed.fields)

\* The store right after the module has loaded, objects held as the
\* JavaScript value the load has put there
InitLoad ==
  /\ \E savedObjects \in SavedTexts, savedCanvas \in SavedTexts :
       /\ objects = LoadObjects(savedObjects)
       /\ canvas = LoadCanvas(savedCanvas)
  /\ selectedObjectIds = <<>>
  /\ history = <<<<>>>>
  /\ historyIndex = 0
  /\ last = [op |-> "init", id |-> 0, behind |-> FALSE]
  /\ trail = NoTrail
  /\ isSelectionBoxActive = FALSE
  /\ selectionBoxStart = null
  /\ selectionBoxEnd = null
  /\ InitFlows

\* the loaded store under the view operations, which leave objects alone
SpecLoad == InitLoad /\ [][NextCanvas]_vars

\* C21: whatever the persisted objects and canvas values are, after the
\* startup load the object collection is a list (an array) and canvas holds
\* every CanvasSettings field.
C21_LoadYieldsWellFormedState ==
  /\ objects.kind = "array"
  /\ DOMAIN defaultCanvasSettings \subseteq DOMAIN canvas

\* ----------------------------------------------------- JavaScript numbers
\* A number of the geometry calculations: a finite value (an integer in
\* every calculation below) or NaN.
NaN == [isNaN |-> TRUE, value |-> 0]
Num(v) == [isNaN |-> FALSE, value |-> v]

Plus(a, b) == IF a.isNaN \/ b.isNaN THEN NaN ELSE Num(a.value + b.value)
Minus(a, b) == IF a.isNaN \/ b.isNaN THEN NaN ELSE Num(a.value - b.value)
Times(a, b) == IF a.isNaN \/ b.isNaN THEN NaN ELSE Num(a.value * b.value)

\* a / b: 0 / 0 is NaN.  The divisors below are magnitudes and products of
\* magnitudes, which are zero only when the dividend is zero too, and the
\* quotients of axis-aligned vectors by their magnitudes are integers.
Over(a, b) ==
  IF a.isNaN \/ b.isNaN \/ b.value = 0 THEN NaN ELSE Num(a.value \div b.value)

RECURSIVE Root(_, _, _)
Root(n, low, high) ==
  IF low >= high THEN low
  ELSE LET mid == (low + high + 1) \div 2
       IN IF mid * mid <= n THEN Root(n, mid, high) ELSE Root(n, low, mid - 1)

\* Math.sqrt(a), exact on the perfect squares the axis-aligned vectors give
Sqrt(a) == IF a.isNaN THEN NaN ELSE Num(Root(a.value, 0, a.value))

\* Math.max(-1, Math.min(1, cosTheta)): NaN stays NaN
ClampCosine(cosTheta) ==
  IF cosTheta.isNaN THEN NaN ELSE Num(Max(-1, Min(1, cosTheta.value)))

\* (Math.acos(c) * 180) / Math.PI for the cosines -1, 0 and 1
AcosDegrees(c) ==
  IF c.isNaN THEN NaN
  ELSE CASE c.value = 1 -> Num(0) [] c.value = 0 -> Num(90) [] c.value = -1 -> Num(180)

\* a point with finite coordinates
At(x, y) == [x |-> Num(x), y |-> Num(y)]

\* ------------------------------------------------ geometry calculations
\* objects.find(obj => obj.id === id); undefined when there is none
undefined == [undefined |-> TRUE]

GetObjectById(objs, id) ==
  IF FindIndex(objs, id) = 0 THEN undefined ELSE objs[FindIndex(objs, id)]

\* the sum of the two points, not halved
calculateMidpointUnhalved(pointA, pointB) ==
  [x |-> Plus(pointA.x, pointB.x), y |-> Plus(pointA.y, pointB.y)]

\* calculateMidpoint(pointA, pointB)
calculateMidpoint(pointA, pointB) ==
  [x |-> Over(Plus(pointA.x, pointB.x), Num(2)),
   y |-> Over(Plus(pointA.y, pointB.y), Num(2))]

\* !baseLine || baseLine.type !== 'line' || !baseLine.points ||
\* baseLine.points.length < 2
NoBaseLine(baseLine) ==
  IF baseLine = undefined THEN TRUE
  ELSE IF baseLine.type # "line" THEN TRUE
  ELSE IF "points" \notin DOMAIN baseLine THEN TRUE
  ELSE Len(baseLine.points) < 2

\* the line through throughPoint along (dirX, dirY), 100 units each way
ExtendedLine(dirX, dirY, throughPoint, baseLineId) ==
  LET length == Num(100)
      magnitude == Sqrt(Plus(Times(dirX, dirX), Times(dirY, dirY)))
      unitX == Over(dirX, magnitude)
      unitY == Over(dirY, magnitude)
      startPoint == [x |-> Minus(throughPoint.x, Times(unitX, length)),
                     y |-> Minus(throughPoint.y, Times(unitY, length))]
      endPoint == [x |-> Plus(throughPoint.x, Times(unitX, length)),
                   y |-> Plus(throughPoint.y, Times(unitY, length))]
  IN [type |-> "line", selected |-> FALSE, position |-> startPoint,
      points |-> <<startPoint, endPoint>>, baseLineId |-> baseLineId]

calculatePerpendicularLineUnchecked(objs, baseLineId, throughPoint) ==
  LET baseLine == GetObjectById(objs, baseLineId)
  IN IF baseLine = undefined THEN null
     ELSE IF baseLine.type # "line" THEN null
     ELSE ExtendedLine(Num(0), Num(1), throughPoint, baseLineId)

\* calculatePerpendicularLine(baseLineId, throughPoint)
calculatePerpendicularLine(objs, baseLineId, throughPoint) ==
  LET baseLine == GetObjectById(objs, baseLineId)
  IN IF NoBaseLine(baseLine) THEN null
     ELSE LET p1 == baseLine.points[1]
              p2 == baseLine.points[2]
              dx == Minus(p2.x, p1.x)
              dy == Minus(p2.y, p1.y)
              perpDx == Minus(Num(0), dy)
              perpDy == dx
          IN ExtendedLine(perpDx, perpDy, throughPoint, baseLineId)

\* calculateParallelLine(baseLineId, throughPoint)
calculateParallelLine(objs, baseLineId, throughPoint) ==
  LET baseLine == GetObjectById(objs, baseLineId)
  IN IF NoBaseLine(baseLine) THEN null
     ELSE LET p1 == baseLine.points[1]
              p2 == baseLine.points[2]
              dx == Minus(p2.x, p1.x)
              dy == Minus(p2.y, p1.y)
          IN ExtendedLine(dx, dy, throughPoint, baseLineId)

\* calculateAngle(pointA, vertex, pointC), in degrees
calculateAngle(pointA, vertex, pointC) ==
  LET vectorAB == [x |-> Minus(pointA.x, vertex.x), y |-> Minus(pointA.y, vertex.y)]
      vectorCB == [x |-> Minus(pointC.x, vertex.x), y |-> Minus(pointC.y, vertex.y)]
      dotProduct == Plus(Times(vectorAB.x, vectorCB.x), Times(vectorAB.y, vectorCB.y))
      magnitudeAB == Sqrt(Plus(Times(vectorAB.x, vectorAB.x), Times(vectorAB.y, vectorAB.y)))
      magnitudeCB == Sqrt(Plus(Times(vectorCB.x, vectorCB.x), Times(vectorCB.y, vectorCB.y)))
      cosTheta == Over(dotProduct, Times(magnitudeAB, magnitudeCB))
  IN AcosDegrees(ClampCosine(cosTheta))

\* a number as the token an object's angleValue holds
Token(number) == IF number.isNaN THEN "NaN" ELSE ToString(number.value)

\* --------------------------------------- drawing and construction flows
\* tools the flows below are driven with
Tools == {"line", "polygon", "perpendicular", "parallel", "angle"}

\* pointer positions of the clicks and moves (less than 20 apart, so a
\* click on a polygon in progress is always near its first point)
Clicks == {At(0, 0), At(2, 0)}

PointObject(id, position) ==
  [id |-> id, type |-> "point", selected |-> FALSE, position |-> position]

\* persisted collections the flows start from: none, or one point
FlowScenes == {<<>>, <<PointObject(1, At(0, 0))>>}

\* const { id, ...objectData } = previewObject
WithoutId(obj) == [f \in DOMAIN obj \ {"id"} |-> obj[f]]

\* the tool is switched and the stroke in progress is kept
setActiveToolKeepsDrawing(tool) ==
  /\ activeTool' = tool
  /\ IF isPolygonDrawing
     THEN isPolygonDrawing' = FALSE /\ currentPolygonPoints' = <<>>
     ELSE UNCHANGED polygonDrawing
  /\ IF constructionMode # "none"
     THEN /\ constructionMode' = "none"
          /\ constructionStep' = 0
          /\ constructionData' = null
     ELSE UNCHANGED construction
  /\ IF tool # "text" /\ isTextEditing
     THEN isTextEditing' = FALSE /\ textEditorPosition' = null
     ELSE UNCHANGED textEditing
  /\ Did("setActiveTool", 0)
  /\ trail' = NoTrail
  /\ UNCHANGED <<store, selectionBox, canvas, drawing>>

\* setActiveTool(tool)
setActiveTool(tool) ==
  /\ activeTool' = tool
  /\ isDrawing' = FALSE
  /\ drawingStartPoint' = null
  /\ previewObject' = null
  /\ IF isPolygonDrawing
     THEN isPolygonDrawing' = FALSE /\ currentPolygonPoints' = <<>>
     ELSE UNCHANGED polygonDrawing
  /\ IF constructionMode # "none"
     THEN /\ constructionMode' = "none"
          /\ constructionStep' = 0
          /\ constructionData' = null
     ELSE UNCHANGED construction
  /\ IF tool # "text" /\ isTextEditing
     THEN isTextEditing' = FALSE /\ textEditorPosition' = null
     ELSE UNCHANGED textEditing
  /\ Did("setActiveTool", 0)
  /\ trail' = NoTrail
  /\ UNCHANGED <<store, selectionBox, canvas>>

\* startDrawing(point)
startDrawing(point) ==
  /\ isDrawing' = TRUE
  /\ drawingStartPoint' = point
  /\ Did("startDrawing", 0)
  /\ trail' = NoTrail
  /\ UNCHANGED <<store, selectionBox, canvas, textEditing, activeTool, previewObject,
                 polygonDrawing, construction>>

\* updateDrawing(point), called on mouse move while isDrawing; the
\* rectangle and circle previews are not among Tools
updateDrawing(point) ==
  /\ isDrawing
  /\ activeTool # "select"
  /\ drawingStartPoint # null
  /\ previewObject' =
       IF activeTool = "line"
       THEN [id |-> "preview", type |-> "line", selected |-> FALSE,
             position |-> drawingStartPoint,
             points |-> <<drawingStartPoint, point>>]
       ELSE null
  /\ Did("updateDrawing", 0)
  /\ trail' = NoTrail
  /\ UNCHANGED <<store, selectionBox, canvas, textEditing, activeTool, isDrawing,
                 drawingStartPoint, polygonDrawing, construction>>

\* finishDrawing, called on mouse up while isDrawing
finishDrawing(newObjectId) ==
  /\ isDrawing
  /\ IF previewObject # null
     THEN Install(AddObject(Store, WithoutId(previewObject), newObjectId))
     ELSE UNCHANGED store
  /\ isDrawing' = FALSE
  /\ drawingStartPoint' = null
  /\ previewObject' = null
  /\ Did("finishDrawing", IF previewObject # null THEN newObjectId ELSE 0)
  /\ trail' = NoTrail
  /\ UNCHANGED <<selectionBox, canvas, textEditing, activeTool, polygonDrawing, construction>>

cancelDrawing ==
  /\ isDrawing' = FALSE
  /\ drawingStartPoint' = null
  /\ previewObject' = null
  /\ Did("cancelDrawing", 0)
  /\ trail' = NoTrail
  /\ UNCHANGED <<store, selectionBox, canvas, textEditing, activeTool, polygonDrawing,
                 construction>>

\* startPolygonDrawing(point)
startPolygonDrawing(point) ==
  /\ isPolygonDrawing' = TRUE
  /\ currentPolygonPoints' = <<point>>
  /\ Did("startPolygonDrawing", 0)
  /\ trail' = NoTrail
  /\ UNCHANGED <<store, selectionBox, canvas, textEditing, activeTool, drawing, construction>>

\* the point is pushed whether or not a polygon is in progress
addPolygonPointAlways(point) ==
  /\ currentPolygonPoints' = Append(currentPolygonPoints, point)
  /\ Did("addPolygonPoint", 0)
  /\ trail' = NoTrail
  /\ UNCHANGED <<store, selectionBox, canvas, textEditing, activeTool, drawing,
                 isPolygonDrawing, construction>>

\* addPolygonPoint(point): the point is pushed while a polygon is in
\* progress
addPolygonPoint(point) ==
  /\ currentPolygonPoints' =
       IF isPolygonDrawing THEN Append(currentPolygonPoints, point)
       ELSE currentPolygonPoints
  /\ Did("addPolygonPoint", 0)
  /\ trail' = NoTrail
  /\ UNCHANGED <<store, selectionBox, canvas, textEditing, activeTool, drawing,
                 isPolygonDrawing, construction>>

\* finishPolygon.  trail stage 5: finishPolygon has run on pre points
finishPolygon(newObjectId) ==
  /\ IF Len(currentPolygonPoints) >= 3 /\ activeTool = "polygon"
     THEN Install(AddObject(Store,
            [type |-> "polygon", selected |-> FALSE,
             position |-> currentPolygonPoints[1],
             points |-> currentPolygonPoints], newObjectId))
     ELSE UNCHANGED store
  /\ isPolygonDrawing' = FALSE
  /\ currentPolygonPoints' = <<>>
  /\ Did("finishPolygon", IF objects' # objects THEN newObjectId ELSE 0)
  /\ trail' = [stage |-> 5, post |-> objects',
              pre |-> [points |-> currentPolygonPoints, objects |-> objects]]
  /\ UNCHANGED <<selectionBox, canvas, textEditing, activeTool, drawing, construction>>

cancelPolygon ==
  /\ isPolygonDrawing' = FALSE
  /\ currentPolygonPoints' = <<>>
  /\ Did("cancelPolygon", 0)
  /\ trail' = NoTrail
  /\ UNCHANGED <<store, selectionBox, canvas, textEditing, activeTool, drawing, construction>>

\* startConstruction(mode, data = null)
StartConstruction(mode, data) ==
  /\ constructionMode' = mode
  /\ constructionStep' = 0
  /\ constructionData' = data
  /\ Did("startConstruction", 0)
  /\ trail' = NoTrail
  /\ UNCHANGED <<store, selectionBox, canvas, textEditing, activeTool, drawing, polygonDrawing>>

\* the click with a construction tool while no construction is in
\* progress: perpendicular and parallel ask for a line, midpoint and angle
\* for two points
startConstruction(worldPos) ==
  /\ constructionMode = "none"
  /\ activeTool \in {"perpendicular", "parallel", "midpoint", "angle"}
  /\ IF activeTool \in {"perpendicular", "parallel"}
     THEN StartConstruction("select_line",
                            [tool |-> activeTool, throughPoint |-> worldPos])
     ELSE StartConstruction("select_two_points", [tool |-> activeTool])

\* constructionData?.field, truthy
Has(data, field) == data # null /\ field \in DOMAIN data

\* the objects finishConstruction adds for the tool and the data
Constructed(objs, tool, data) ==
  IF tool = "midpoint" /\ Has(data, "point0") /\ Has(data, "point1")
  THEN LET pointA == GetObjectById(objs, data.point0)
           pointB == GetObjectById(objs, data.point1)
       IN IF pointA # undefined /\ pointB # undefined
          THEN <<[type |-> "point", selected |-> FALSE,
                  position |-> calculateMidpoint(pointA.position, pointB.position)]>>
          ELSE <<>>
  ELSE IF tool = "perpendicular" /\ Has(data, "point0") /\ Has(data, "tool")
          /\ Has(data, "throughPoint")
  THEN LET baseLine == GetObjectById(objs, data.point0)
       IN IF baseLine # undefined /\ baseLine.type = "line"
          THEN LET perpLine == calculatePerpendicularLine(objs, baseLine.id, data.throughPoint)
               IN IF perpLine # null THEN <<perpLine>> ELSE <<>>
          ELSE <<>>
  ELSE IF tool = "parallel" /\ Has(data, "point0") /\ Has(data, "tool")
          /\ Has(data, "throughPoint")
  THEN LET baseLine == GetObjectById(objs, data.point0)
       IN IF baseLine # undefined /\ baseLine.type = "line"
          THEN LET parallelLine == calculateParallelLine(objs, baseLine.id, data.throughPoint)
               IN IF parallelLine # null THEN <<parallelLine>> ELSE <<>>
          ELSE <<>>
  ELSE IF tool = "angle" /\ Has(data, "point0") /\ Has(data, "point1")
  THEN LET pointA == GetObjectById(objs, data.point0)
           pointB == GetObjectById(objs, data.point1)
       IN IF pointA # undefined /\ pointB # undefined
          THEN LET vertex == calculateMidpoint(pointA.position, pointB.position)
                   angleValue == calculateAngle(pointA.position, vertex, pointB.position)
               IN <<[type |-> "angle", selected |-> FALSE, position |-> vertex,
                     points |-> <<pointA.position, vertex, pointB.position>>,
                     angleValue |-> Token(angleValue)]>>
          ELSE <<>>
  ELSE <<>>

\* finishConstruction on the store s with the construction data
FinishConstruction(s, tool, data, newObjectId) ==
  LET added == Constructed(s.objects, tool, data)
  IN IF added # <<>> THEN AddObject(s, added[1], newObjectId) ELSE s

\* addConstructionPoint(objectId), the click on an object while a
\* construction is in progress: the id is stored as point<step>, and the
\* construction finishes once the mode has its objects.
\* trail stage 6: finishConstruction has run with pre as construction data
addConstructionPoint(objectId, newObjectId) ==
  /\ constructionMode # "none"
  /\ LET data == Assign(constructionData,
                   IF constructionStep = 0 THEN [point0 |-> objectId]
                   ELSE [point1 |-> objectId])
         complete == \/ constructionMode = "select_line" /\ constructionStep >= 0
                     \/ constructionMode = "select_two_points" /\ constructionStep >= 1
     IN IF complete
        THEN /\ Install(FinishConstruction(Store, activeTool, data, newObjectId))
             /\ constructionMode' = "none"
             /\ constructionStep' = 0
             /\ constructionData' = null
             /\ trail' = [stage |-> 6, pre |-> data, post |-> objects']
        ELSE /\ constructionData' = data
             /\ constructionStep' = constructionStep + 1
             /\ trail' = NoTrail
             /\ UNCHANGED <<store, constructionMode>>
  /\ Did("addConstructionPoint", IF objects' # objects THEN newObjectId ELSE 0)
  /\ UNCHANGED <<selectionBox, canvas, textEditing, activeTool, drawing, polygonDrawing>>

cancelConstruction ==
  /\ constructionMode' = "none"
  /\ constructionStep' = 0
  /\ constructionData' = null
  /\ Did("cancelConstruction", 0)
  /\ trail' = NoTrail
  /\ UNCHANGED <<store, selectionBox, canvas, textEditing, activeTool, drawing, polygonDrawing>>

\* The store with a persisted scene, before any flow
InitFlowScene ==
  /\ objects \in FlowScenes
  /\ selectedObjectIds = <<>>
  /\ history = <<<<>>>>
  /\ historyIndex = 0
  /\ last = [op |-> "init", id |-> 0, behind |-> FALSE]
  /\ trail = NoTrail
  /\ isSelectionBoxActive = FALSE
  /\ selectionBoxStart = null
  /\ selectionBoxEnd = null
  /\ canvas = defaultCanvasSettings
  /\ InitFlows

\* ids generateId can give that no object carries yet: the flows are
\* explored with fresh ids
Fresh == generateId \ IdsOf(objects)

\* The pointer handlers of the canvas: a stroke starts on mouse down with
\* a drawing tool; the first click with the polygon tool starts a polygon,
\* a later click that does not close it adds a point (the click is near
\* the first point, so fewer than 3 points are there), the closing click
\* or Enter finishes it.  Strokes and polygons start at the first click
\* position; a construction that has no base line adds nothing and needs
\* neither room nor an id.
DrawingClick == activeTool = "line" /\ constructionMode = "none"
PolygonClick == activeTool = "polygon" /\ constructionMode = "none"

NextFlows ==
  \/ \E tool \in Tools : setActiveTool(tool)
  \/ DrawingClick /\ startDrawing(At(0, 0))
  \/ \E point \in Clicks : updateDrawing(point)
  \/ \E newObjectId \in Fresh : Room(1) /\ finishDrawing(newObjectId)
  \/ cancelDrawing
  \/ PolygonClick /\ ~isPolygonDrawing /\ startPolygonDrawing(At(0, 0))
  \/ /\ PolygonClick /\ isPolygonDrawing /\ Len(currentPolygonPoints) < 3
     /\ addPolygonPoint(At(2, 0))
  \/ \E newObjectId \in Fresh :
       Room(1) /\ isPolygonDrawing /\ finishPolygon(newObjectId)
  \/ cancelPolygon
  \/ startConstruction(At(2, 0))
  \/ \E objectId \in generateId, newObjectId \in Fresh :
       Room(1) /\ addConstructionPoint(objectId, newObjectId)
  \/ \E objectId \in generateId :
       /\ constructionMode = "select_line"
       /\ NoBaseLine(GetObjectById(objects, objectId))
       /\ addConstructionPoint(objectId, objectId)
  \/ cancelConstruction
  \/ \E id \in IdsOf(objects) :
       Room(1) /\ updateObject(id, [points |-> <<At(0, 0)>>])

SpecFlows == InitFlowScene /\ [][NextFlows]_vars

\* the arity of the points array by object type
PointsArity(obj) ==
  CASE obj.type = "line" -> "points" \in DOMAIN obj /\ Len(obj.points) >= 2
    [] obj.type = "polygon" -> "points" \in DOMAIN obj /\ Len(obj.points) >= 3
    [] obj.type = "angle" -> "points" \in DOMAIN obj /\ Len(obj.points) = 3
    [] OTHER -> TRUE

\* C22: in every reachable state every line has at least 2 points, every
\* polygon at least 3 and every angle marker exactly 3; finishPolygon on
\* fewer than 3 accumulated points adds no object.
C22_PointsArity ==
  /\ \A i \in 1..Len(objects) : PointsArity(objects[i])
  /\ (trail.stage = 5 /\ Len(trail.pre.points) < 3) => trail.post = trail.pre.objects

\* ------------------------------------------------- claims on the geometry
Finite(point) == ~point.x.isNaN /\ ~point.y.isNaN

\* the squared distance of two finite points
Distance2(p, q) ==
  (p.x.value - q.x.value) * (p.x.value - q.x.value)
    + (p.y.value - q.y.value) * (p.y.value - q.y.value)

\* line is a payload of two points 100 from P on opposite sides of P that
\* names the base line
ThroughPoint(line, P, baseLineId) ==
  /\ line # null
  /\ Len(line.points) = 2
  /\ Finite(line.points[1]) /\ Finite(line.points[2])
  /\ Distance2(line.points[1], P) = 100 * 100
  /\ Distance2(line.points[2], P) = 100 * 100
  /\ line.points[1].x.value + line.points[2].x.value = 2 * P.x.value
  /\ line.points[1].y.value + line.points[2].y.value = 2 * P.y.value
  /\ line.baseLineId = baseLineId

\* the direction of a line of finite points, as a pair of integers
Direction(points) ==
  [x |-> points[2].x.value - points[1].x.value,
   y |-> points[2].y.value - points[1].y.value]

Dot(u, v) == u.x * v.x + u.y * v.y
Cross(u, v) == u.x * v.y - u.y * v.x

\* C23: for every line of the store with at least 2 points and every
\* through-point P, calculatePerpendicularLine returns two points at
\* distance 100 from P on opposite sides of P, in a direction with zero dot
\* product with the base direction, and names the base line;
\* calculateParallelLine returns the same with zero cross product.
C23_ConstructedLinesThroughP ==
  \A id \in generateId, P \in Clicks :
    LET baseLine == GetObjectById(objects, id)
        perpLine == calculatePerpendicularLine(objects, id, P)
        parallelLine == calculateParallelLine(objects, id, P)
    IN ~NoBaseLine(baseLine) =>
         /\ ThroughPoint(perpLine, P, id)
         /\ ThroughPoint(parallelLine, P, id)
         /\ Dot(Direction(perpLine.points), Direction(baseLine.points)) = 0
         /\ Cross(Direction(parallelLine.points), Direction(baseLine.points)) = 0

\* the base id names no object, or an object that is no line, or a line of
\* fewer than 2 points
BadBase(objs, id) == NoBaseLine(GetObjectById(objs, id))

\* C24: calculatePerpendicularLine and calculateParallelLine return null
\* when the base id names no object, no line, or a line of fewer than 2
\* points, and a perpendicular/parallel construction on such a selection
\* adds no object, commits no snapshot and returns the construction state
\* to 'none'.
C24_NoBaseLineNoConstruction ==
  [][/\ \A id \in generateId, P \in Clicks :
          BadBase(objects, id) =>
            /\ calculatePerpendicularLine(objects, id, P) = null
            /\ calculateParallelLine(objects, id, P) = null
     /\ \A objectId \in generateId, newObjectId \in generateId :
          (/\ constructionMode = "select_line"
           /\ BadBase(objects, objectId)
           /\ addConstructionPoint(objectId, newObjectId))
          => /\ objects' = objects
             /\ history' = history
             /\ historyIndex' = historyIndex
             /\ constructionMode' = "none"
             /\ constructionStep' = 0
             /\ constructionData' = null]_vars

\* a perpendicular or parallel construction has finished on a line of
\* fewer than 2 points
C24_Witness ==
  /\ trail.stage = 6
  /\ "throughPoint" \in DOMAIN trail.pre
  /\ LET baseLine == GetObjectById(objects, trail.pre.point0)
     IN /\ baseLine # undefined
        /\ baseLine.type = "line"
        /\ Len(baseLine.points) < 2
  /\ constructionMode = "none"

\* points whose differences give the axis-aligned vectors of the angle
GridPoints == {At(x, y) : x \in Coord, y \in Coord}

AxisAligned(p, q) == p.x = q.x \/ p.y = q.y

\* C25: for all points A, vertex, C, coincident ones included,
\* calculateAngle returns a number of degrees in [0, 180], and
\* calculateAngle((1,0),(0,0),(0,1)) = 90; so does every angle marker of
\* the store hold one.
C25_AngleInRange ==
  /\ \A pointA \in GridPoints, vertex \in GridPoints, pointC \in GridPoints :
       (AxisAligned(pointA, vertex) /\ AxisAligned(pointC, vertex)) =>
         LET angleDegrees == calculateAngle(pointA, vertex, pointC)
         IN /\ ~angleDegrees.isNaN
            /\ 0 <= angleDegrees.value /\ angleDegrees.value <= 180
  /\ calculateAngle(At(1, 0), At(0, 0), At(0, 1)) = Num(90)
  /\ \A i \in 1..Len(objects) :
       objects[i].type = "angle" => objects[i].angleValue \in {"0", "90", "180"}

\* ------------------------------------------------- pointer on the canvas
\* Canvas.tsx, with integer coordinates: the positions used below lie on
\* one axis of an object's points or centre, so that every square root is
\* the root of a perfect square and every quotient is exact.
Abs(v) == IF v < 0 THEN 0 - v ELSE v

\* Math.sqrt(Math.pow(p.x - q.x, 2) + Math.pow(p.y - q.y, 2))
Distance(p, q) ==
  LET sum == (p.x - q.x) * (p.x - q.x) + (p.y - q.y) * (p.y - q.y)
  IN Root(sum, 0, sum)

\* the positions findNearbyPoint looks at for obj, in the order of the
\* scan: the main position, except for lines, then every point of points
SnapTargets(obj) ==
  (IF obj.type # "line"
   THEN <<[point |-> obj.position, objectId |-> obj.id, type |-> "position"]>>
   ELSE <<>>)
  \o (IF "points" \in DOMAIN obj
      THEN [i \in 1..Len(obj.points) |->
              [point |-> obj.points[i], objectId |-> obj.id, pointIndex |-> i - 1,
               type |-> IF obj.type # "line" THEN "point"
                        ELSE IF i = 1 THEN "startpoint"
                        ELSE IF i = Len(obj.points) THEN "endpoint"
                        ELSE "point"]]
      ELSE <<>>)

\* the targets of the visible objects, in collection order
RECURSIVE VisibleTargets(_)
VisibleTargets(objs) ==
  IF objs = <<>> THEN <<>>
  ELSE (IF Head(objs).visible THEN SnapTargets(Head(objs)) ELSE <<>>)
         \o VisibleTargets(Tail(objs))

\* the scan of findNearbyPoint: a target replaces the closest one so far
\* when distance <= closestDistance
RECURSIVE Closest(_, _, _, _)
Closest(targets, worldPos, closestTarget, closestDistance) ==
  IF targets = <<>> THEN closestTarget
  ELSE LET distance == Distance(worldPos, Head(targets).point)
       IN IF distance <= closestDistance
          THEN Closest(Tail(targets), worldPos,
                 Assign(Head(targets), [distance |-> distance]), distance)
          ELSE Closest(Tail(targets), worldPos, closestTarget, closestDistance)

\* findNearbyPoint(worldPos) on the objects and the canvas settings
findNearbyPoint(objs, settings, worldPos) ==
  IF ~settings.snapToPoints THEN null
  ELSE Closest(VisibleTargets(objs), worldPos, null, settings.snapDistance)

\* getSnappedPosition(worldPos)
getSnappedPosition(objs, settings, worldPos) ==
  LET nearbyPoint == findNearbyPoint(objs, settings, worldPos)
  IN IF nearbyPoint # null THEN nearbyPoint.point ELSE worldPos

\* distanceToLineSegment(point, lineStart, lineEnd); param is dot / lenSq
distanceToLineSegment(point, lineStart, lineEnd) ==
  LET A == point.x - lineStart.x
      B == point.y - lineStart.y
      C == lineEnd.x - lineStart.x
      D == lineEnd.y - lineStart.y
      dot == A * C + B * D
      lenSq == C * C + D * D
  IN IF lenSq = 0 THEN Root(A * A + B * B, 0, A * A + B * B)
     ELSE LET nearest ==
                IF dot < 0 THEN lineStart
                ELSE IF dot > lenSq THEN lineEnd
                ELSE [x |-> lineStart.x + (dot * C) \div lenSq,
                      y |-> lineStart.y + (dot * D) \div lenSq]
          IN Distance(point, nearest)

\* obj.radius || 30
RadiusOr30(obj) ==
  IF "radius" \in DOMAIN obj THEN (IF obj.radius # 0 THEN obj.radius ELSE 30) ELSE 30

\* whether findCurveForPoint returns obj for worldPos, tolerance 15
OnCurve(obj, worldPos) ==
  IF ~obj.visible THEN FALSE
  ELSE IF obj.type = "line"
  THEN IF "points" \in DOMAIN obj
       THEN IF Len(obj.points) >= 2
            THEN distanceToLineSegment(worldPos, obj.points[1], obj.points[2]) <= 15
            ELSE FALSE
       ELSE FALSE
  ELSE IF obj.type = "circle"
  THEN Abs(Distance(worldPos, obj.position) - RadiusOr30(obj)) <= 15
  ELSE FALSE

\* findCurveForPoint(worldPos): the first object in collection order
RECURSIVE findCurveForPoint(_, _)
findCurveForPoint(objs, worldPos) ==
  IF objs = <<>> THEN null
  ELSE IF OnCurve(Head(objs), worldPos)
       THEN [object |-> Head(objs), type |-> Head(objs).type]
       ELSE findCurveForPoint(Tail(objs), worldPos)

ProjectOnLineUnclamped(worldPos, object) ==
  LET p1 == object.points[1]
      p2 == object.points[2]
      A == worldPos.x - p1.x
      B == worldPos.y - p1.y
      C == p2.x - p1.x
      D == p2.y - p1.y
      dot == A * C + B * D
      lenSq == C * C + D * D
  IN IF lenSq = 0 THEN p1
     ELSE [x |-> p1.x + (dot * C) \div lenSq, y |-> p1.y + (dot * D) \div lenSq]

\* case 'line' of getConstrainedPosition: param is
\* Math.max(0, Math.min(1, dot / lenSq)), held as paramTimesLenSq / lenSq
ProjectOnLine(worldPos, object) ==
  LET p1 == object.points[1]
      p2 == object.points[2]
      A == worldPos.x - p1.x
      B == worldPos.y - p1.y
      C == p2.x - p1.x
      D == p2.y - p1.y
      dot == A * C + B * D
      lenSq == C * C + D * D
      paramTimesLenSq == Max(0, Min(lenSq, dot))
  IN IF lenSq = 0 THEN p1
     ELSE [x |-> p1.x + (paramTimesLenSq * C) \div lenSq,
           y |-> p1.y + (paramTimesLenSq * D) \div lenSq]

\* case 'circle' of getConstrainedPosition: ratio is radius / distance
ProjectOnCircle(worldPos, object) ==
  LET distance == Distance(worldPos, object.position)
      radius == RadiusOr30(object)
  IN IF distance = 0 THEN object.position
     ELSE [x |-> object.position.x
                   + ((worldPos.x - object.position.x) * radius) \div distance,
           y |-> object.position.y
                   + ((worldPos.y - object.position.y) * radius) \div distance]

\* getConstrainedPosition(worldPos, constraintInfo)
getConstrainedPosition(worldPos, constraintInfo) ==
  IF constraintInfo = null THEN worldPos
  ELSE IF constraintInfo.type = "line"
  THEN IF "points" \in DOMAIN constraintInfo.object
       THEN IF Len(constraintInfo.object.points) >= 2
            THEN ProjectOnLine(worldPos, constraintInfo.object)
            ELSE worldPos
       ELSE worldPos
  ELSE IF constraintInfo.type = "circle"
  THEN ProjectOnCircle(worldPos, constraintInfo.object)
  ELSE worldPos

\* coordinates on the axis, 10 apart: within the snap distance (14) and the
\* curve tolerance (15) of a neighbour, outside those of the next one
Xs == {0, 10, 20}

OnAxis(x) == [x |-> x, y |-> 0]

\* a point, a line as the line tool leaves it, or a circle with the radius
\* Math.sqrt(dx * dx + dy * dy) the circle tool leaves, shown or hidden
PointerShapes(id) ==
  [id : {id}, type : {"point"}, visible : BOOLEAN, selected : {FALSE},
   position : {OnAxis(x) : x \in Xs}]
  \cup {[id |-> id, type |-> "line", visible |-> visible, selected |-> FALSE,
         position |-> OnAxis(x1), points |-> <<OnAxis(x1), OnAxis(x2)>>] :
          x1 \in Xs, x2 \in Xs, visible \in BOOLEAN}
  \cup {[id |-> id, type |-> "circle", visible |-> visible, selected |-> FALSE,
         position |-> OnAxis(x1), radius |-> Distance(OnAxis(x1), OnAxis(x2))] :
          x1 \in Xs, x2 \in Xs, visible \in BOOLEAN}

\* persisted collections under the pointer: none, or one shape
PointerScenes == {<<>>} \cup {<<shape>> : shape \in PointerShapes(1)}

\* handleMouseDown with the point tool: a point on the curve under the
\* pointer, or else a free point at the snapped position.
\* trail stage 7: a point has been created for the pointer position pre
handleMouseDown(worldPos, newObjectId) ==
  /\ constructionMode = "none"
  /\ activeTool = "point"
  /\ LET curveConstraint == findCurveForPoint(objects, worldPos)
     IN IF curveConstraint # null
        THEN Install(AddObject(Store,
               [type |-> "point", visible |-> TRUE, selected |-> FALSE,
                position |-> getConstrainedPosition(worldPos, curveConstraint),
                baseLineId |-> curveConstraint.object.id,
                pointAId |-> curveConstraint.type], newObjectId))
        ELSE Install(AddObject(Store,
               [type |-> "point", visible |-> TRUE, selected |-> FALSE,
                position |-> getSnappedPosition(objects, canvas, worldPos)],
               newObjectId))
  /\ Did("handleMouseDown", newObjectId)
  /\ trail' = [stage |-> 7, pre |-> worldPos, post |-> objects']
  /\ UNCHANGED view

InitPointer ==
  /\ objects \in PointerScenes
  /\ selectedObjectIds = <<>>
  /\ history = <<<<>>>>
  /\ historyIndex = 0
  /\ last = [op |-> "init", id |-> 0, behind |-> FALSE]
  /\ trail = NoTrail
  /\ isSelectionBoxActive = FALSE
  /\ selectionBoxStart = null
  /\ selectionBoxEnd = null
  /\ canvas = defaultCanvasSettings
  /\ InitFlows

NextPointer ==
  \/ \E tool \in {"select", "point"} : setActiveTool(tool)
  \/ \E snapToPoints \in BOOLEAN :
       updateCanvasSettings([snapToPoints |-> snapToPoints])
  \/ \E x \in Xs, newObjectId \in Fresh :
       Room(1) /\ handleMouseDown(OnAxis(x), newObjectId)

SpecPointer == InitPointer /\ [][NextPointer]_vars

\* pointer positions on the axes through the centre or the segment
PlanePoints == {[x |-> x, y |-> y] : x \in Xs, y \in {0, 10}}

\* C26: for every circle with stored radius R >= 0 and every point P other
\* than the centre, the projection of P onto the circle lies at distance R
\* from the centre on the ray through P; for P at the centre it is the
\* centre.
C26_CircleProjectionAtRadius ==
  \A i \in 1..Len(objects) : \A P \in PlanePoints :
    LET circle == objects[i]
        centre == circle.position
        projected == getConstrainedPosition(P, [object |-> circle, type |-> "circle"])
        ray == [x |-> P.x - centre.x, y |-> P.y - centre.y]
        to == [x |-> projected.x - centre.x, y |-> projected.y - centre.y]
    IN (circle.type = "circle" /\ (P.x = centre.x \/ P.y = centre.y)) =>
         IF P = centre THEN projected = centre
         ELSE /\ Distance(projected, centre) = circle.radius
              /\ Cross(to, ray) = 0
              /\ Dot(to, ray) >= 0

\* Q lies on the segment from p1 to p2
OnSegment(Q, p1, p2) ==
  LET along == [x |-> p2.x - p1.x, y |-> p2.y - p1.y]
      to == [x |-> Q.x - p1.x, y |-> Q.y - p1.y]
  IN /\ Cross(to, along) = 0
     /\ 0 <= Dot(to, along)
     /\ Dot(to, along) <= Dot(along, along)
     /\ p1 = p2 => Q = p1

SquaredDistance(p, q) ==
  (p.x - q.x) * (p.x - q.x) + (p.y - q.y) * (p.y - q.y)

\* C27: for every line with endpoints p1, p2 and every point P the
\* projection of P lies on the segment [p1, p2], at p1 + t * (p2 - p1) with
\* t the clamped parameter, which makes it the point of the segment
\* nearest to P; it is p1 when the segment is degenerate, and a point that
\* lies on the segment is projected onto itself.
C27_LineProjectionOnSegment ==
  \A i \in 1..Len(objects) : \A P \in PlanePoints :
    LET line == objects[i]
        projected == getConstrainedPosition(P, [object |-> line, type |-> "line"])
        p1 == line.points[1]
        p2 == line.points[2]
        C == p2.x - p1.x
        D == p2.y - p1.y
        dot == (P.x - p1.x) * C + (P.y - p1.y) * D
        lenSq == C * C + D * D
    IN line.type = "line" =>
         /\ OnSegment(projected, p1, p2)
         /\ lenSq * (projected.x - p1.x) = Max(0, Min(lenSq, dot)) * C
         /\ lenSq * (projected.y - p1.y) = Max(0, Min(lenSq, dot)) * D
         /\ \A Q \in PlanePoints :
              OnSegment(Q, p1, p2) =>
                SquaredDistance(P, projected) <= SquaredDistance(P, Q)
         /\ p1 = p2 => projected = p1
         /\ OnSegment(P, p1, p2) => projected = P
         /\ getConstrainedPosition(projected, [object |-> line, type |-> "line"])
              = projected

\* a point has been created on a shown line away from the pointer, which
\* was beyond the end of the segment
C27_Witness ==
  /\ trail.stage = 7
  /\ Len(objects) >= 2
  /\ objects[1].type = "line"
  /\ objects[1].points[1] # objects[1].points[2]
  /\ LET created == objects[Len(objects)]
     IN /\ "baseLineId" \in DOMAIN created
        /\ created.baseLineId = objects[1].id
        /\ created.position # trail.pre
        /\ OnSegment(created.position, objects[1].points[1], objects[1].points[2])

\* the target of minimal distance within the radius, the first one
\* encountered among those at the same distance
RECURSIVE FirstClosest(_, _, _, _)
FirstClosest(targets, worldPos, closestTarget, closestDistance) ==
  IF targets = <<>> THEN closestTarget
  ELSE LET distance == Distance(worldPos, Head(targets).point)
       IN IF distance < closestDistance
             \/ (distance = closestDistance /\ closestTarget = null)
          THEN FirstClosest(Tail(targets), worldPos,
                 Assign(Head(targets), [distance |-> distance]), distance)
          ELSE FirstClosest(Tail(targets), worldPos, closestTarget, closestDistance)


\* C28: with snap-to-points enabled findNearbyPoint returns the target of
\* minimal distance among the positions and points of the visible objects
\* within the snap distance, the first one encountered among equals, and
\* nothing when there is none or snapping is disabled.
C28_NearestTargetFirstWins ==
  \A x \in Xs :
    LET found == findNearbyPoint(objects, canvas, OnAxis(x))
        expected == IF canvas.snapToPoints
                    THEN FirstClosest(VisibleTargets(objects), OnAxis(x), null,
                                      canvas.snapDistance)
                    ELSE null
    IN IF expected = null THEN found = null
       ELSE /\ found # null
            /\ found.objectId = expected.objectId
            /\ found.point = expected.point

\* ------------------------------------------- code generation (CodeOutput)
\* The generated text is held as its lines; a line is its fixed wording,
\* the numbers printed into it, the object name printed into it and the
\* colours printed into it.  Lengths are integers: canvas lengths in tenths
\* of a pixel, TikZ lengths in thousandths of a unit, opacities in
\* hundredths.  Line widths, line styles and the font of a name are left out.
Line(text, args, name) ==
  [text |-> text, args |-> args, name |-> name, colors |-> <<>>]

\* a line with colours printed into it
Colored(line, colors) == [line EXCEPT !.colors = colors]

\* the four display options of the component
DisplayOptions ==
  [showCoordinates : BOOLEAN, showDocumentWrapper : BOOLEAN,
   showNameComments : BOOLEAN, showNameLabels : BOOLEAN]

\* n / d rounded to the nearest integer, halves away from zero (toFixed)
RoundDiv(n, d) ==
  IF n >= 0 THEN (2 * n + d) \div (2 * d) ELSE 0 - ((d - 2 * n) \div (2 * d))

\* Math.floor(value / step) * step and Math.ceil(value / step) * step
FloorTo(value, step) == (value \div step) * step
CeilTo(value, step) == 0 - (((0 - value) \div step) * step)

\* pixelToTikZ(pixels): pixels / 28 printed with at most two decimals
pixelToTikZ(pixels) == 10 * RoundDiv(pixels * 100, 280)

\* formatCoord(value): value printed with at most two decimals
formatCoord(value) == 10 * RoundDiv(value, 10)

\* obj.radius || 30, in tenths of a pixel
RadiusOrDefault(obj) ==
  IF "radius" \in DOMAIN obj
  THEN (IF obj.radius = 0 THEN 300 ELSE 10 * obj.radius)
  ELSE 300

\* the default name position of generateNameLabel and calculateBounds (no
\* namePosition), in tenths of a pixel
NamePosition(obj) ==
  CASE obj.type = "circle" ->
         [x |-> 10 * obj.position.x,
          y |-> 10 * obj.position.y - RadiusOrDefault(obj) - 200]
    [] obj.type = "point" ->
         [x |-> 10 * obj.position.x + 100, y |-> 10 * obj.position.y - 150]
    [] OTHER ->
         [x |-> 10 * obj.position.x, y |-> 10 * obj.position.y - 150]

\* colour values of the objects: 'transparent', two palette colours (one
\* of them also written in upper case), a colour outside the palette
\* written in lower and in upper case, and the default name colour
ColorValues ==
  {"transparent", "#3b82f6", "#3B82F6", "#000000", "#a1b2c3", "#A1B2C3", "#666666"}

\* color.toLowerCase()
toLowerCase(color) ==
  CASE color = "#3B82F6" -> "#3b82f6"
    [] color = "#A1B2C3" -> "#a1b2c3"
    [] OTHER -> color

\* color.slice(1).toUpperCase() of a lower-case colour
HexDigits(color) ==
  CASE color = "#3b82f6" -> "3B82F6"
    [] color = "#a1b2c3" -> "A1B2C3"
    [] color = "#000000" -> "000000"
    [] color = "#666666" -> "666666"
    [] OTHER -> color

\* /^#[0-9A-F]{6}$/i.test(color)
isValidHexColor(color) == color \in ColorValues \ {"transparent"}

\* colorMap of formatColor: the palette and its TikZ names
colorMap ==
  [c \in {"#000000", "#ffffff", "#3b82f6", "#ef4444", "#10b981", "#f59e0b",
          "#8b5cf6", "#ec4899", "#6b7280", "#1f2937"} |->
     CASE c = "#000000" -> "black" [] c = "#ffffff" -> "white"
       [] c = "#3b82f6" -> "blue" [] c = "#ef4444" -> "red"
       [] c = "#10b981" -> "green" [] c = "#f59e0b" -> "orange"
       [] c = "#8b5cf6" -> "violet" [] c = "#ec4899" -> "pink"
       [] c = "#6b7280" -> "gray" [] c = "#1f2937" -> "darkgray"]

\* commonColors of generateColorDefinitions
commonColors ==
  {"#000000", "#ffffff", "#3b82f6", "#ef4444", "#10b981", "#f59e0b",
   "#8b5cf6", "#ec4899", "#6b7280", "#1f2937"}

\* a colour as the text names it: customcolorXXXXXX when custom, with the
\* opacity modifier that follows it, if any
ColorName(name, custom, modifier) ==
  [name |-> name, custom |-> custom, opacity |-> modifier]

\* an optional field of an object: obj.field, or the given value for undefined
Field(obj, field, otherwise) ==
  IF field \in DOMAIN obj THEN obj[field] ELSE otherwise

\* the opacity of an object that has none
unset == 0 - 1

\* formatColor(color, opacity): if (opacity && opacity < 1) the modifier
\* opacity.toFixed(2) follows the name
formatColor(color, opacity) ==
  IF color = "transparent"
  THEN ColorName("transparent", FALSE, <<>>)
  ELSE LET lower == toLowerCase(color)
           modifier == IF opacity # unset /\ opacity # 0 /\ opacity < 100
                       THEN <<opacity>> ELSE <<>>
       IN IF lower \in DOMAIN colorMap
          THEN ColorName(colorMap[lower], FALSE, modifier)
          ELSE ColorName(HexDigits(lower), TRUE, modifier)

\* the colours of one object that generateColorDefinitions looks at, in
\* its order: stroke, fill, nameStyle.color
UsedColors(obj) ==
  <<obj.stroke, obj.fill>>
  \o (IF "nameStyle" \in DOMAIN obj THEN <<obj.nameStyle.color>> ELSE <<>>)

RECURSIVE CustomColors(_)
\* customColors: the Set of the lower-case custom colours of the visible
\* objects, in insertion order
CustomColors(colors) ==
  IF Len(colors) = 0
  THEN <<>>
  ELSE LET before == CustomColors(SubSeq(colors, 1, Len(colors) - 1))
           color == colors[Len(colors)]
       IN IF /\ color # "transparent"
             /\ isValidHexColor(color)
             /\ toLowerCase(color) \notin commonColors
             /\ ~Includes(before, toLowerCase(color))
          THEN Append(before, toLowerCase(color))
          ELSE before

RECURSIVE VisibleColors(_)
VisibleColors(objs) ==
  IF Len(objs) = 0
  THEN <<>>
  ELSE (IF Head(objs).visible THEN UsedColors(Head(objs)) ELSE <<>>)
       \o VisibleColors(Tail(objs))

\* generateColorDefinitions(): one \definecolor per custom colour
generateColorDefinitions(objs) ==
  LET customColors == CustomColors(VisibleColors(objs))
  IN [k \in 1..Len(customColors) |->
        Colored(Line("\\definecolor", <<>>, <<>>),
                <<ColorName(HexDigits(customColors[k]), TRUE, <<>>)>>)]

\* generateNameLabel(offset)
generateNameLabel(obj, options) ==
  IF ~obj.showName \/ ~options.showNameLabels
  THEN <<>>
  ELSE <<Colored(Line("\\node[anchor=center] at",
                      <<pixelToTikZ(NamePosition(obj).x),
                        pixelToTikZ(0 - NamePosition(obj).y)>>, obj.name),
                 IF "nameStyle" \in DOMAIN obj
                 THEN (IF obj.nameStyle.color # "#666666"
                       THEN <<formatColor(obj.nameStyle.color, unset)>>
                       ELSE <<>>)
                 ELSE <<>>)>>

\* the circle statement: \draw, \filldraw or \fill with its colour options
CircleStatement(obj, args) ==
  LET strokeColor == formatColor(obj.stroke, Field(obj, "strokeOpacity", unset))
      fillColor == formatColor(obj.fill, Field(obj, "fillOpacity", unset))
  IN IF obj.fill # "transparent"
     THEN (IF obj.stroke # "transparent"
           THEN Colored(Line("\\filldraw circle", args, <<>>), <<strokeColor, fillColor>>)
           ELSE Colored(Line("\\fill circle (disc)", args, <<>>), <<fillColor>>))
     ELSE Colored(Line("\\draw circle", args, <<>>), <<strokeColor>>)

\* the drawing statement of generateObjectCode's switch (obj.type)
ObjectStatement(obj) ==
  LET x == pixelToTikZ(10 * obj.position.x)
      y == pixelToTikZ(0 - 10 * obj.position.y)
  IN CASE obj.type = "point" ->
            Colored(Line("\\fill circle", <<x, y, 6 * obj.strokeWidth>>, <<>>),
                    <<formatColor(obj.stroke, Field(obj, "strokeOpacity", unset))>>)
       [] obj.type = "circle" ->
            CircleStatement(obj, <<x, y, pixelToTikZ(RadiusOrDefault(obj))>>)
       [] OTHER ->
            Line("% Unsupported object type", <<>>, <<obj.type>>)

\* generateObjectCode reading the selection flag of the object as well
generateObjectCodeSelected(obj, options) ==
  IF ~obj.visible
  THEN <<>>
  ELSE (IF obj.showName /\ options.showNameComments
        THEN <<Line("%", <<>>, obj.name)>> ELSE <<>>)
       \o <<ObjectStatement(obj)>>
       \o (IF obj.selected THEN <<Line("% selected", <<>>, <<>>)>> ELSE <<>>)
       \o generateNameLabel(obj, options)

\* generateObjectCode(obj): comment + code + nameLabel, '' when invisible
generateObjectCode(obj, options) ==
  IF ~obj.visible
  THEN <<>>
  ELSE (IF obj.showName /\ options.showNameComments
        THEN <<Line("%", <<>>, obj.name)>> ELSE <<>>)
       \o <<ObjectStatement(obj)>>
       \o generateNameLabel(obj, options)

\* the extent of a visible object and its name on the canvas
Extent(obj) ==
  LET objX == 10 * obj.position.x
      objY == 10 * obj.position.y
      nameLength == IF Len(obj.name) = 0 THEN 4 ELSE Len(obj.name)
      halfWidth == 42 * nameLength
      halfHeight == 72
      named == obj.showName
      nameMinX == IF named THEN Min(objX, NamePosition(obj).x - halfWidth) ELSE objX
      nameMaxX == IF named THEN Max(objX, NamePosition(obj).x + halfWidth) ELSE objX
      nameMinY == IF named THEN Min(objY, NamePosition(obj).y - halfHeight) ELSE objY
      nameMaxY == IF named THEN Max(objY, NamePosition(obj).y + halfHeight) ELSE objY
      reach == CASE obj.type = "circle" -> RadiusOrDefault(obj)
                 [] obj.type = "point" ->
                      6 * (IF obj.strokeWidth = 0 THEN 2 ELSE obj.strokeWidth)
                 [] OTHER -> 0
  IN [minX |-> Min(objX - reach, nameMinX), maxX |-> Max(objX + reach, nameMaxX),
      minY |-> Min(objY - reach, nameMinY), maxY |-> Max(objY + reach, nameMaxY)]

RECURSIVE Extents(_)
\* objects.forEach: the running minima and maxima over the visible objects
Extents(objs) ==
  IF Len(objs) = 1
  THEN Extent(objs[1])
  ELSE LET rest == Extents(SubSeq(objs, 1, Len(objs) - 1))
           this == Extent(objs[Len(objs)])
       IN [minX |-> Min(rest.minX, this.minX), maxX |-> Max(rest.maxX, this.maxX),
           minY |-> Min(rest.minY, this.minY), maxY |-> Max(rest.maxY, this.maxY)]

\* roundToNice(value, isMin)
roundToNice(value, isMin) ==
  LET absValue == Abs(value)
      step == IF absValue < 1000 THEN 500
              ELSE IF absValue < 5000 THEN 1000
              ELSE IF absValue < 20000 THEN 2000
              ELSE IF absValue < 100000 THEN 5000
              ELSE 10000
  IN IF isMin THEN FloorTo(value, step) ELSE CeilTo(value, step)

\* calculateBounds()
calculateBounds(objs) ==
  LET shown == SelectSeq(objs, LAMBDA obj : obj.visible)
      default == [minX |-> 0 - 3000, maxX |-> 3000, minY |-> 0 - 3000, maxY |-> 3000]
  IN IF Len(objs) = 0 \/ Len(shown) = 0
     THEN default
     ELSE LET px == Extents(shown)
              minX == pixelToTikZ(px.minX)
              maxX == pixelToTikZ(px.maxX)
              minY == pixelToTikZ(0 - px.maxY)
              maxY == pixelToTikZ(0 - px.minY)
              paddingX == Max(1000, (maxX - minX) \div 10)
              paddingY == Max(1000, (maxY - minY) \div 10)
              finalMinX == roundToNice(minX - paddingX, TRUE)
              finalMaxX == roundToNice(maxX + paddingX, FALSE)
              finalMinY == roundToNice(minY - paddingY, TRUE)
              finalMaxY == roundToNice(maxY + paddingY, FALSE)
              minRange == 4000
          IN IF finalMaxX - finalMinX < minRange
             THEN [minX |-> (finalMinX + finalMaxX) \div 2 - minRange \div 2,
                   maxX |-> (finalMinX + finalMaxX) \div 2 + minRange \div 2,
                   minY |-> finalMinY, maxY |-> finalMaxY]
             ELSE IF finalMaxY - finalMinY < minRange
             THEN [minX |-> finalMinX, maxX |-> finalMaxX,
                   minY |-> (finalMinY + finalMaxY) \div 2 - minRange \div 2,
                   maxY |-> (finalMinY + finalMaxY) \div 2 + minRange \div 2]
             ELSE [minX |-> finalMinX, maxX |-> finalMaxX,
                   minY |-> finalMinY, maxY |-> finalMaxY]

\* getGridStep(range)
getGridStep(range) ==
  IF range <= 2500 THEN 250
  ELSE IF range <= 5000 THEN 500
  ELSE IF range <= 10000 THEN 1000
  ELSE IF range <= 20000 THEN 2000
  ELSE IF range <= 50000 THEN 5000
  ELSE IF range <= 100000 THEN 10000
  ELSE IF range <= 200000 THEN 20000
  ELSE IF range <= 500000 THEN 50000
  ELSE CeilTo(range, 100000) \div 10

\* the tick spacing of an axis of the given length
TickSpacing(axisRange) ==
  IF axisRange <= 2500 THEN 250
  ELSE IF axisRange <= 5000 THEN 500
  ELSE IF axisRange <= 10000 THEN 1000
  ELSE IF axisRange <= 20000 THEN 2000
  ELSE IF axisRange <= 50000 THEN 5000
  ELSE CeilTo(axisRange, 10000) \div 10

\* the tick loop without the test that leaves the zero tick out
TicksWithZero(axisMin, axisMax) ==
  LET tickSpacing == TickSpacing(axisMax - axisMin)
      startTick == CeilTo(axisMin, tickSpacing)
      count == IF startTick > axisMax THEN 0
               ELSE (axisMax - startTick) \div tickSpacing + 1
  IN [k \in 1..count |-> startTick + (k - 1) * tickSpacing]

\* for (x = startTick; x <= axisMax; x += tickSpacing), the zero tick left out
Ticks(axisMin, axisMax) ==
  LET tickSpacing == TickSpacing(axisMax - axisMin)
      startTick == CeilTo(axisMin, tickSpacing)
      count == IF startTick > axisMax THEN 0
               ELSE (axisMax - startTick) \div tickSpacing + 1
      all == [k \in 1..count |-> startTick + (k - 1) * tickSpacing]
  IN SelectSeq(all, LAMBDA x : 10 * Abs(x) >= tickSpacing)

\* the coordinate system of generateTikZCode for the bounds of the objects
CoordinateSystem(bounds) ==
  LET stepX == getGridStep(bounds.maxX - bounds.minX)
      stepY == getGridStep(bounds.maxY - bounds.minY)
      gridMinX == FloorTo(bounds.minX, stepX)
      gridMaxX == CeilTo(bounds.maxX, stepX)
      gridMinY == FloorTo(bounds.minY, stepY)
      gridMaxY == CeilTo(bounds.maxY, stepY)
      corners == <<formatCoord(gridMinX), formatCoord(gridMinY),
                   formatCoord(gridMaxX), formatCoord(gridMaxY)>>
      xInBounds == bounds.minX <= 0 /\ bounds.maxX >= 0
      yInBounds == bounds.minY <= 0 /\ bounds.maxY >= 0
      originInBounds == xInBounds /\ yInBounds
      axisMargin == (3 * Min(stepX, stepY)) \div 10
      ticksX == Ticks(gridMinX + axisMargin, gridMaxX - axisMargin)
      ticksY == Ticks(gridMinY + axisMargin, gridMaxY - axisMargin)
      originLabelPos ==
        IF bounds.minX > 0 - 500 /\ bounds.minY > 0 - 500 THEN "above right"
        ELSE IF bounds.maxX < 500 /\ bounds.minY > 0 - 500 THEN "above left"
        ELSE IF bounds.minX > 0 - 500 /\ bounds.maxY < 500 THEN "below right"
        ELSE "below left"
  IN <<Line("% Smart coordinate system", <<>>, <<>>)>>
     \o (IF stepX >= 1000 /\ stepY >= 1000
         THEN <<Line("\\draw[gray!15, very thin] grid[step=0.5]", corners, <<>>)>>
         ELSE <<>>)
     \o <<Line("\\draw[gray!25, thin] grid",
               corners \o <<formatCoord(stepX), formatCoord(stepY)>>, <<>>)>>
     \o (IF yInBounds
         THEN <<Line("\\draw[->] node[right] {$x$}",
                     <<formatCoord(gridMinX + axisMargin),
                       formatCoord(gridMaxX - axisMargin)>>, <<>>)>>
         ELSE <<>>)
     \o (IF xInBounds
         THEN <<Line("\\draw[->] node[above] {$y$}",
                     <<formatCoord(gridMinY + axisMargin),
                       formatCoord(gridMaxY - axisMargin)>>, <<>>)>>
         ELSE <<>>)
     \o (IF originInBounds
         THEN <<Line("\\fill (0,0) circle (1pt) node {$O$}", <<>>, <<originLabelPos>>)>>
         ELSE <<>>)
     \o (IF yInBounds
         THEN [k \in 1..Len(ticksX) |->
                 Line("\\draw node[below]", <<formatCoord(ticksX[k])>>, <<>>)]
         ELSE <<>>)
     \o (IF xInBounds
         THEN [k \in 1..Len(ticksY) |->
                 Line("\\draw node[left]", <<formatCoord(ticksY[k])>>, <<>>)]
         ELSE <<>>)

RECURSIVE SortByCreatedAt(_)
\* [...objects].sort((a, b) => a.createdAt - b.createdAt): a stable sort
SortByCreatedAt(objs) ==
  IF Len(objs) <= 1
  THEN objs
  ELSE LET sorted == SortByCreatedAt(SubSeq(objs, 1, Len(objs) - 1))
           obj == objs[Len(objs)]
           before == SelectSeq(sorted, LAMBDA o : o.createdAt <= obj.createdAt)
           after == SelectSeq(sorted, LAMBDA o : o.createdAt > obj.createdAt)
       IN before \o <<obj>> \o after

RECURSIVE ObjectLines(_, _)
\* sortedObjects.map(generateObjectCode).filter(code => code.trim()).join('\n')
ObjectLines(objs, options) ==
  IF Len(objs) = 0
  THEN <<>>
  ELSE generateObjectCode(Head(objs), options) \o ObjectLines(Tail(objs), options)

\* header and footer of generateTikZCode
Header(objs, options) ==
  LET hasImages == \E i \in 1..Len(objs) : objs[i].type = "image" /\ objs[i].visible
  IN IF options.showDocumentWrapper
     THEN <<Line("\\documentclass[tikz,border=10pt]{standalone}", <<>>, <<>>),
            Line("\\usepackage{tikz}", <<>>, <<>>),
            Line("\\usepackage{xcolor}", <<>>, <<>>),
            Line("\\usepackage{ulem}", <<>>, <<>>)>>
          \o (IF hasImages THEN <<Line("\\usepackage{graphicx}", <<>>, <<>>)>> ELSE <<>>)
          \o <<Line("\\usetikzlibrary{arrows.meta}", <<>>, <<>>),
               Line("\\usetikzlibrary{shapes.geometric}", <<>>, <<>>),
               Line("\\usetikzlibrary{calc}", <<>>, <<>>),
               Line("\\usetikzlibrary{positioning}", <<>>, <<>>)>>
          \o generateColorDefinitions(objs)
          \o <<Line("\\begin{document}", <<>>, <<>>),
               Line("\\begin{tikzpicture}", <<>>, <<>>)>>
     ELSE <<Line("\\begin{tikzpicture}", <<>>, <<>>)>>

Footer(options) ==
  IF options.showDocumentWrapper
  THEN <<Line("\\end{tikzpicture}", <<>>, <<>>), Line("\\end{document}", <<>>, <<>>)>>
  ELSE <<Line("\\end{tikzpicture}", <<>>, <<>>)>>

\* the body of generateTikZCode for an empty collection
Placeholder ==
  <<Line("% No objects to draw", <<>>, <<>>),
    Line("% Use the tools in the toolbar to create geometric shapes", <<>>, <<>>)>>

\* generateTikZCode without the branch for the empty collection
generateTikZCodeNoPlaceholder(objs, options) ==
  Header(objs, options)
  \o (IF options.showCoordinates THEN CoordinateSystem(calculateBounds(objs)) ELSE <<>>)
  \o ObjectLines(SortByCreatedAt(objs), options)
  \o Footer(options)

\* generateTikZCode()
generateTikZCode(objs, options) ==
  LET header == Header(objs, options)
      footer == Footer(options)
      coordinateSystem ==
        IF options.showCoordinates THEN CoordinateSystem(calculateBounds(objs)) ELSE <<>>
  IN IF Len(objs) = 0
     THEN header \o Placeholder \o coordinateSystem \o footer
     ELSE header \o coordinateSystem
          \o ObjectLines(SortByCreatedAt(objs), options) \o footer

\* objects the generator is run on: a named or unnamed, shown or hidden
\* point or circle on the grid (28 pixels to the unit)
CodeShapes(id, createdAt) ==
  [id : {id}, type : {"point"}, visible : BOOLEAN, selected : {FALSE},
   showName : BOOLEAN, name : {<<"A">>}, strokeWidth : {2},
   stroke : {"#3b82f6"}, fill : {"transparent"},
   position : {[x |-> 28 * id, y |-> 0]}, createdAt : {createdAt}]
  \cup [id : {id}, type : {"circle"}, visible : BOOLEAN, selected : {FALSE},
        showName : BOOLEAN, name : {<<"A">>}, strokeWidth : {2}, radius : {28},
        stroke : {"#3b82f6"}, fill : {"transparent"},
        position : {[x |-> 28 * id, y |-> 0]}, createdAt : {createdAt}]

\* persisted collections: none, one object, or a shown point and a shown,
\* named point of which either may be the older one
CodeScenes ==
  {<<>>}
  \cup {<<first>> : first \in CodeShapes(1, 1)}
  \cup {<<first, second>> :
          first \in {shape \in CodeShapes(1, 2) :
                      shape.type = "point" /\ shape.visible /\ ~shape.showName},
          second \in {shape \in CodeShapes(2, 1) \cup CodeShapes(2, 3) :
                       shape.type = "point" /\ shape.visible /\ shape.showName}}

\* a render of the component: const tikzCode = generateTikZCode() under the
\* display options of the moment.
\* trail stage 8: the text post has been generated under the options pre
CodeOutput(options) ==
  /\ trail' = [stage |-> 8, pre |-> options,
               post |-> generateTikZCode(objects, options)]
  /\ UNCHANGED <<store, last, view>>

InitCodeOutput ==
  /\ objects \in CodeScenes
  /\ selectedObjectIds = <<>>
  /\ history = <<<<>>>>
  /\ historyIndex = 0
  /\ last = [op |-> "init", id |-> 0, behind |-> FALSE]
  /\ trail = NoTrail
  /\ isSelectionBoxActive = FALSE
  /\ selectionBoxStart = null
  /\ selectionBoxEnd = null
  /\ canvas = defaultCanvasSettings
  /\ InitFlows

NextCodeOutput ==
  \/ \E options \in DisplayOptions : CodeOutput(options)
  \/ \E id \in generateId : selectObject(id, FALSE)
  \/ clearSelection
  \/ Room(MaxCommits) /\ saveToHistory
  \/ clearCanvas
  \/ updateCanvasSettings([snapToPoints |-> FALSE])
  \/ setActiveTool("line")
  \/ DrawingClick /\ startDrawing(At(0, 0))

SpecCodeOutput == InitCodeOutput /\ [][NextCodeOutput]_vars

\* two collections that differ in the selection flags at most
SameCollection(before, after) ==
  /\ Len(before) = Len(after)
  /\ \A i \in 1..Len(before) :
       [before[i] EXCEPT !.selected = FALSE] = [after[i] EXCEPT !.selected = FALSE]

\* C29: code generation is deterministic and free of state: once a text
\* has been generated, a step of the store that leaves the object collection
\* as it was (selection, history, drawing state and canvas settings may
\* change) leaves a further call under the same display options returning
\* the identical text.
C29_GenerationStateFree ==
  [][(trail.stage = 8 /\ SameCollection(objects, objects')) =>
       generateTikZCode(objects', trail.pre) = trail.post]_vars

\* a text with a drawing statement has been generated while an object shown
\* in it is selected
C29_Witness ==
  /\ trail.stage = 8
  /\ \E i \in 1..Len(objects) : objects[i].selected /\ objects[i].visible
  /\ \E k \in 1..Len(trail.post) : trail.post[k].text = "\\fill circle"

\* lines that generateObjectCode writes for an object
ObjectTexts ==
  {"%", "\\fill circle", "\\draw circle", "\\filldraw circle",
   "\\fill circle (disc)", "\\node[anchor=center] at",
   "% Unsupported object type"}

Texts(lines) == {lines[k].text : k \in 1..Len(lines)}

\* C30: for the empty collection, under every combination of display
\* options, the generated text is complete: it opens with the document
\* wrapper or the bare picture begin, holds the placeholder comments, holds
\* the coordinate system exactly when that is enabled, closes with the
\* matching footer, and holds no statement for an object.
C30_EmptyCollectionComplete ==
  (trail.stage = 8 /\ Len(objects) = 0) =>
    LET text == trail.post
        options == trail.pre
        n == Len(text)
    IN /\ n >= 4
       /\ IF options.showDocumentWrapper
          THEN /\ text[1].text = "\\documentclass[tikz,border=10pt]{standalone}"
               /\ "\\begin{document}" \in Texts(text)
               /\ text[n - 1].text = "\\end{tikzpicture}"
               /\ text[n].text = "\\end{document}"
          ELSE /\ text[1].text = "\\begin{tikzpicture}"
               /\ text[n].text = "\\end{tikzpicture}"
               /\ Texts(text) \cap {"\\begin{document}", "\\end{document}",
                     "\\documentclass[tikz,border=10pt]{standalone}"} = {}
       /\ Cardinality({k \in 1..n : text[k].text = "\\begin{tikzpicture}"}) = 1
       /\ Cardinality({k \in 1..n : text[k].text = "\\end{tikzpicture}"}) = 1
       /\ "% No objects to draw" \in Texts(text)
       /\ ("% Smart coordinate system" \in Texts(text)) <=> options.showCoordinates
       /\ ("\\draw[gray!25, thin] grid" \in Texts(text)) <=> options.showCoordinates
       /\ Texts(text) \cap ObjectTexts = {}

\* the text for the empty collection has been generated with the
\* coordinate system and without the document wrapper, after the canvas
\* was cleared
C30_Witness ==
  /\ trail.stage = 8
  /\ Len(objects) = 0
  /\ last.op = "clearCanvas"
  /\ trail.pre.showCoordinates
  /\ ~trail.pre.showDocumentWrapper
  /\ Len(trail.post) = 18

\* ---------------------------------------------- colours in generated code
\* opacities the sliders of the properties panel give (min 0, max 1), in
\* hundredths
Opacities == {0, 50, 100}

\* a shown or hidden, named point or circle with a transparent, palette or
\* custom stroke and a transparent or custom fill, ...
PlainShapes(id) ==
  [id : {id}, type : {"point"}, visible : BOOLEAN, selected : {FALSE},
   showName : {TRUE}, name : {<<"A">>}, strokeWidth : {2},
   stroke : {"transparent", "#3B82F6", "#a1b2c3"},
   fill : {"transparent", "#A1B2C3"},
   position : {[x |-> 28 * id, y |-> 0]}, createdAt : {id}]
  \cup [id : {id}, type : {"circle"}, visible : BOOLEAN, selected : {FALSE},
        showName : {TRUE}, name : {<<"A">>}, strokeWidth : {2}, radius : {28},
        stroke : {"transparent", "#3B82F6", "#a1b2c3"},
        fill : {"transparent", "#A1B2C3"},
        position : {[x |-> 28 * id, y |-> 0]}, createdAt : {id}]

\* ... with or without a stroke opacity or a name colour
ColorShapes(id) ==
  PlainShapes(id)
  \cup {Assign(shape, [strokeOpacity |-> opacity]) :
          shape \in PlainShapes(id), opacity \in Opacities}
  \cup {Assign(shape, [nameStyle |-> [color |-> color]]) :
          shape \in PlainShapes(id), color \in {"#666666", "#a1b2c3"}}

\* persisted collections: one object, or a shown point of custom stroke
\* followed by a second object
ColorScenes ==
  {<<first>> : first \in ColorShapes(1)}
  \cup {<<first, second>> :
          first \in {shape \in PlainShapes(1) :
                      /\ shape.type = "point" /\ shape.visible
                      /\ shape.stroke = "#a1b2c3" /\ shape.fill = "transparent"},
          second \in ColorShapes(2)}

InitColors ==
  /\ objects \in ColorScenes
  /\ selectedObjectIds = <<>>
  /\ history = <<<<>>>>
  /\ historyIndex = 0
  /\ last = [op |-> "init", id |-> 0, behind |-> FALSE]
  /\ trail = NoTrail
  /\ isSelectionBoxActive = FALSE
  /\ selectionBoxStart = null
  /\ selectionBoxEnd = null
  /\ canvas = defaultCanvasSettings
  /\ InitFlows

NextColors == \E options \in DisplayOptions : CodeOutput(options)

SpecColors == InitColors /\ [][NextColors]_vars

\* the custom colours the visible objects use, in lower case
UsedCustomColors(objs) ==
  {toLowerCase(VisibleColors(objs)[k]) : k \in 1..Len(VisibleColors(objs))}
  \ (commonColors \cup {"transparent"})

Definitions(text) == {k \in 1..Len(text) : text[k].text = "\\definecolor"}

\* C31: each colour outside the palette that a visible object uses has
\* exactly one custom colour definition in the generated text, and every
\* custom colour name a statement refers to is defined in that text.
C31_CustomColorsDefinedOnce ==
  trail.stage = 8 =>
    LET text == trail.post
    IN /\ \A color \in UsedCustomColors(objects) :
            Cardinality({k \in Definitions(text) :
                           text[k].colors[1].name = HexDigits(color)}) = 1
       /\ \A k \in (1..Len(text)) \ Definitions(text) :
            \A c \in 1..Len(text[k].colors) :
               text[k].colors[c].custom =>
                 \E d \in Definitions(text) :
                    text[d].colors[1].name = text[k].colors[c].name

\* the statement of the single object of a collection
Statement(text) ==
  text[CHOOSE k \in 1..Len(text) :
         text[k].text \in {"\\fill circle", "\\draw circle", "\\filldraw circle"}]

\* C32: a stroke opacity below 1 follows the colour name as an opacity
\* modifier carrying that value, an opacity of 1 or none leaves the bare
\* colour name, and a custom colour definition carries no opacity.
C32_OpacityModifier ==
  (/\ trail.stage = 8
   /\ Len(objects) = 1
   /\ objects[1].visible
   /\ objects[1].stroke # "transparent") =>
    LET text == trail.post
        opacity == Field(objects[1], "strokeOpacity", unset)
    IN /\ Statement(text).colors[1].opacity =
            IF opacity # unset /\ opacity < 100 THEN <<opacity>> ELSE <<>>
       /\ \A d \in Definitions(text) : text[d].colors[1].opacity = <<>>

\* ------------------------------------------------ bounds and tick marks
\* canvas coordinates of the objects below, in pixels (28 to the unit): on
\* and off the grid, near and far from the origin
PixelCoords == {0 - 28, 0, 14, 28, 1400, 28000}

\* a shown or hidden, named or unnamed point or circle at one of the places
BoundsShapes(id) ==
  [id : {id}, type : {"point"}, visible : BOOLEAN, selected : {FALSE},
   showName : BOOLEAN, name : {<<"A">>}, strokeWidth : {2},
   stroke : {"#3b82f6"}, fill : {"transparent"},
   position : [x : PixelCoords, y : PixelCoords], createdAt : {id}]
  \cup [id : {id}, type : {"circle"}, visible : BOOLEAN, selected : {FALSE},
        showName : BOOLEAN, name : {<<"A">>}, strokeWidth : {2}, radius : {28},
        stroke : {"#3b82f6"}, fill : {"transparent"},
        position : [x : PixelCoords, y : PixelCoords], createdAt : {id}]

\* persisted collections: one object, or a shown unnamed point at the
\* origin and a second object
BoundsScenes ==
  {<<first>> : first \in BoundsShapes(1)}
  \cup {<<first, second>> :
          first \in {shape \in BoundsShapes(1) :
                      /\ shape.type = "point" /\ shape.visible /\ ~shape.showName
                      /\ shape.position = [x |-> 0, y |-> 0]},
          second \in BoundsShapes(2)}

InitBounds ==
  /\ objects \in BoundsScenes
  /\ selectedObjectIds = <<>>
  /\ history = <<<<>>>>
  /\ historyIndex = 0
  /\ last = [op |-> "init", id |-> 0, behind |-> FALSE]
  /\ trail = NoTrail
  /\ isSelectionBoxActive = FALSE
  /\ selectionBoxStart = null
  /\ selectionBoxEnd = null
  /\ canvas = defaultCanvasSettings
  /\ InitFlows

NextBounds == \E options \in DisplayOptions : CodeOutput(options)

SpecBounds == InitBounds /\ [][NextBounds]_vars

\* the coordinate system has been generated for the objects
Fitted == trail.stage = 8 /\ trail.pre.showCoordinates

\* the minimum visual size of an axis, 4 units
MinRange == 4000

\* C33: calculateBounds never returns a range of zero width or height, and
\* both returned axis ranges are at least the minimum visual size of 4
\* units, also when both axes fall below it at once.
C33_BoundsAtLeastMinimum ==
  Fitted =>
    LET bounds == calculateBounds(objects)
    IN /\ bounds.maxX > bounds.minX
       /\ bounds.maxY > bounds.minY
       /\ bounds.maxX - bounds.minX >= MinRange
       /\ bounds.maxY - bounds.minY >= MinRange

\* C34: for a single visible point the returned window is symmetric around
\* the point: on each axis the transformed coordinate of the point is the
\* midpoint of the returned range.
C34_SinglePointCentred ==
  (/\ Fitted
   /\ Len(objects) = 1
   /\ objects[1].type = "point"
   /\ objects[1].visible
   /\ ~objects[1].showName) =>
    LET bounds == calculateBounds(objects)
        x == pixelToTikZ(10 * objects[1].position.x)
        y == pixelToTikZ(0 - 10 * objects[1].position.y)
    IN /\ bounds.minX + bounds.maxX = 2 * x
       /\ bounds.minY + bounds.maxY = 2 * y

\* the trimmed span of the axes for the given bounds
AxisSpan(bounds) ==
  LET stepX == getGridStep(bounds.maxX - bounds.minX)
      stepY == getGridStep(bounds.maxY - bounds.minY)
      axisMargin == (3 * Min(stepX, stepY)) \div 10
  IN [minX |-> FloorTo(bounds.minX, stepX) + axisMargin,
      maxX |-> CeilTo(bounds.maxX, stepX) - axisMargin,
      minY |-> FloorTo(bounds.minY, stepY) + axisMargin,
      maxY |-> CeilTo(bounds.maxY, stepY) - axisMargin]

\* the numbers of the tick lines of one axis in a text
TicksIn(text, wording) ==
  LET lines == SelectSeq(text, LAMBDA line : line.text = wording)
  IN [k \in 1..Len(lines) |-> lines[k].args[1]]

\* the ticks of an axis: a spacing of at least 0.25 and at least a tenth of
\* the span, at most 11 ticks, all within the span and none at 0
BoundedTicks(ticks, axisMin, axisMax) ==
  /\ TickSpacing(axisMax - axisMin) >= 250
  /\ 10 * TickSpacing(axisMax - axisMin) >= axisMax - axisMin
  /\ ticks = [k \in 1..Len(Ticks(axisMin, axisMax)) |->
                formatCoord(Ticks(axisMin, axisMax)[k])]
  /\ Len(ticks) <= 11
  /\ \A k \in 1..Len(ticks) :
       /\ Ticks(axisMin, axisMax)[k] >= axisMin
       /\ Ticks(axisMin, axisMax)[k] <= axisMax
       /\ ticks[k] # 0

\* C35: for the bounds calculateBounds returns, the tick loops of both axes
\* end after at most 11 ticks, every tick lies within the trimmed axis
\* span, and no tick is at coordinate 0.
C35_TicksBounded ==
  Fitted =>
    LET bounds == calculateBounds(objects)
        span == AxisSpan(bounds)
    IN /\ (bounds.minY <= 0 /\ bounds.maxY >= 0) =>
            BoundedTicks(TicksIn(trail.post, "\\draw node[below]"), span.minX, span.maxX)
       /\ (bounds.minX <= 0 /\ bounds.maxX >= 0) =>
            BoundedTicks(TicksIn(trail.post, "\\draw node[left]"), span.minY, span.maxY)

\* ticks have been generated on both axes, with a spacing above 5 on one
C35_Witness ==
  /\ Fitted
  /\ Len(TicksIn(trail.post, "\\draw node[below]")) >= 8
  /\ Len(TicksIn(trail.post, "\\draw node[left]")) >= 3
  /\ \E k \in 1..Len(trail.post) :
       trail.post[k].text = "\\draw node[below]" /\ trail.post[k].args[1] > 5000

\* ------------------------------------------------------ dragging (Canvas)
\* the updates of onDragEnd for the object and the position the drag ended
\* at: a point on a curve is projected on it, a circle snaps to a nearby
\* point, a line or polygon has its points shifted by the position (the
\* image case is left out)
DragUpdates(objs, settings, obj, position) ==
  LET constraintObject ==
        IF obj.type = "point" /\ "baseLineId" \in DOMAIN obj /\ "pointAId" \in DOMAIN obj
        THEN Find(objs, obj.baseLineId)
        ELSE null
      constrained ==
        IF constraintObject # null
        THEN getConstrainedPosition(position,
               [object |-> constraintObject, type |-> obj.pointAId])
        ELSE position
      snapTarget ==
        IF obj.type = "circle" /\ settings.snapToPoints
        THEN findNearbyPoint(objs, settings, constrained)
        ELSE null
      newPos == IF snapTarget # null THEN snapTarget.point ELSE constrained
  IN IF obj.type \in {"line", "polygon"} /\ Len(obj.points) > 0
     THEN [position |-> origin,
           points |-> [k \in 1..Len(obj.points) |->
                         [x |-> obj.points[k].x + newPos.x,
                          y |-> obj.points[k].y + newPos.y]]]
     ELSE [position |-> newPos]

\* onDragEnd of object i: updateObject, updateConstrainedObjects for it,
\* saveToHistory, one after the other on the store
DragEnd(s, settings, i, position) ==
  LET obj == s.objects[i]
      updated == UpdateObject(s, obj.id, DragUpdates(s.objects, settings, obj, position))
      propagated == [updated EXCEPT
                       !.objects = UpdateConstrainedObjects(updated.objects, obj.id)]
  IN SaveToHistory(propagated)

\* trail stage 9: object i of the collection pre has been dragged
onDragEnd(i, position) ==
  /\ i \in 1..Len(objects)
  /\ activeTool = "select"
  /\ Install(DragEnd(Store, canvas, i, position))
  /\ Did("onDragEnd", objects[i].id)
  /\ trail' = [stage |-> 9, pre |-> objects, post |-> objects']
  /\ UNCHANGED view

\* positions a drag ends at
DragPositions == {[x |-> 1, y |-> 0], [x |-> 1, y |-> 1]}

\* the collection of a point, a circle and a line, with its snapshot the
\* only one left in the history
InitDrag ==
  /\ objects = ConstraintScene
  /\ selectedObjectIds = <<>>
  /\ history = <<JsonCopy(ConstraintScene)>>
  /\ historyIndex = 0
  /\ last = [op |-> "init", id |-> 0, behind |-> FALSE]
  /\ trail = NoTrail
  /\ isSelectionBoxActive = FALSE
  /\ selectionBoxStart = null
  /\ selectionBoxEnd = null
  /\ InitFlows
  /\ canvas = defaultCanvasSettings

\* The exploration declares constraints, drags an object once and undoes.
NextDrag ==
  \/ \E objectId \in SceneIds, constraint \in Constraint :
       /\ Declaring
       /\ Follows(objects, objectId, constraint)
       /\ constraint.targetId \in 1..2
       /\ constraint.offset = null
       /\ addConstraint(objectId, constraint)
  \/ \E i \in SceneIds, position \in DragPositions :
       /\ last.op # "onDragEnd"
       /\ Room(2)
       /\ InRange(DragEnd(Store, canvas, i, position).objects)
       /\ onDragEnd(i, position)
  \/ undo

SpecDrag == InitDrag /\ [][NextDrag]_vars

\* position and points of each object
Geometry(objs) ==
  [k \in 1..Len(objs) |->
     [id |-> objs[k].id, position |-> objs[k].position, points |-> objs[k].points]]

\* C36: dragging one object is one undoable step: the undo that follows a
\* drag end returns every object of the collection, the dragged one and its
\* dependents, to its position and points of before the drag.
C36_DragIsOneUndoStep ==
  [][(trail.stage = 9 /\ last'.op = "undo") =>
       Geometry(objects') = Geometry(trail.pre)]_vars

\* ------------------------------------------------ construction protocol
\* the tools the protocol is driven with
ProtocolTools == {"midpoint", "perpendicular", "angle"}

\* Two points whose coordinates are multiples of 16: the midpoints that
\* three constructions in a row can reach stay integers
ProtocolScene == <<PointObject(1, At(0, 0)), PointObject(2, At(16, 8))>>

\* ids of the objects the constructions add
ConstructedIds == 3..(NumIds + 2)

InitProtocol ==
  /\ objects = ProtocolScene
  /\ selectedObjectIds = <<>>
  /\ history = <<<<>>>>
  /\ historyIndex = 0
  /\ last = [op |-> "init", id |-> 0, behind |-> FALSE]
  /\ trail = NoTrail
  /\ isSelectionBoxActive = FALSE
  /\ selectionBoxStart = null
  /\ selectionBoxEnd = null
  /\ canvas = defaultCanvasSettings
  /\ InitFlows

\* startConstruction is taken with either mode under every tool; a
\* construction that adds an object takes an id no object carries.
NextProtocol ==
  \/ \E tool \in ProtocolTools : setActiveTool(tool)
  \/ \E mode \in {"select_line", "select_two_points"} :
       StartConstruction(mode, [tool |-> activeTool])
  \/ startConstruction(At(2, 0))
  \/ \E objectId \in IdsOf(objects), newObjectId \in ConstructedIds \ IdsOf(objects) :
       Room(1) /\ addConstructionPoint(objectId, newObjectId)
  \/ cancelConstruction

SpecProtocol == InitProtocol /\ [][NextProtocol]_vars

\* the construction has completed in the step: its state is reset, at
\* most one object was added, with one snapshot, or none with none
Completed(before, after) ==
  /\ after.constructionMode = "none"
  /\ after.constructionStep = 0
  /\ after.constructionData = null
  /\ \/ /\ after.objects = before.objects
        /\ after.history = before.history
        /\ after.historyIndex = before.historyIndex
     \/ /\ Len(after.objects) = Len(before.objects) + 1
        /\ IdsOf(after.objects) \ IdsOf(before.objects) # {}
        /\ after.historyIndex = before.historyIndex + 1
        /\ Len(after.history) = Len(before.history) + 1

\* the construction goes on after the step: nothing was added
InProgress(before, after) ==
  /\ after.constructionMode = before.constructionMode
  /\ after.constructionStep = before.constructionStep + 1
  /\ after.objects = before.objects
  /\ after.history = before.history
  /\ after.historyIndex = before.historyIndex

\* the point the midpoint tool added lies at the per-axis mean of the
\* positions of the two objects selected
MeanOfSelected(objs, data, added) ==
  LET pointA == GetObjectById(objs, data.point0).position
      pointB == GetObjectById(objs, data.point1).position
  IN /\ added.type = "point"
     /\ ~added.position.x.isNaN /\ ~added.position.y.isNaN
     /\ 2 * added.position.x.value = pointA.x.value + pointB.x.value
     /\ 2 * added.position.y.value = pointA.y.value + pointB.y.value

\* C37: after startConstruction('select_line') the first
\* addConstructionPoint completes the construction; after
\* startConstruction('select_two_points') the first one does not and the
\* second one does.  On completion the mode is 'none', the step 0 and the
\* data null, at most one object was added, with one snapshot, and the
\* point the midpoint tool adds lies at the per-axis mean of the positions
\* of the two selected objects.
C37_ConstructionProtocol ==
  [][last'.op = "addConstructionPoint" =>
       LET before == [constructionMode |-> constructionMode,
                      constructionStep |-> constructionStep,
                      objects |-> objects, history |-> history,
                      historyIndex |-> historyIndex]
           after == [constructionMode |-> constructionMode',
                     constructionStep |-> constructionStep',
                     constructionData |-> constructionData',
                     objects |-> objects', history |-> history',
                     historyIndex |-> historyIndex']
           first == last.op = "startConstruction"
           second == last.op = "addConstructionPoint" /\ constructionMode # "none"
       IN /\ (first /\ constructionMode = "select_line") => Completed(before, after)
          /\ (first /\ constructionMode = "select_two_points") => InProgress(before, after)
          /\ (second /\ constructionMode = "select_two_points") => Completed(before, after)
          /\ (trail'.stage = 6 /\ activeTool = "midpoint" /\ objects' # objects) =>
               MeanOfSelected(objects, trail'.pre, objects'[Len(objects')])]_vars

\* the midpoint tool has added the point (8, 4) between (0, 0) and (16, 8)
\* on the second selection
C37_Witness ==
  /\ last.op = "addConstructionPoint"
  /\ activeTool = "midpoint"
  /\ trail.stage = 6
  /\ constructionMode = "none"
  /\ Len(objects) = 3
  /\ objects[3].type = "point"
  /\ objects[3].position = At(8, 4)

\* ------------------------------------------------------------ text editing
\* startTextEditing(position)
startTextEditing(position) ==
  /\ isTextEditing' = TRUE
  /\ textEditorPosition' = position
  /\ Did("startTextEditing", 0)
  /\ trail' = NoTrail
  /\ UNCHANGED <<store, selectionBox, canvas, flows>>

cancelTextEditing ==
  /\ isTextEditing' = FALSE
  /\ textEditorPosition' = null
  /\ Did("cancelTextEditing", 0)
  /\ trail' = NoTrail
  /\ UNCHANGED <<store, selectionBox, canvas, flows>>

\* text.trim()
trim(text) == IF text = " " THEN "" ELSE text

\* finishTextEditing(text, isMath): a text object is added at the editor
\* position when there is one and the trimmed text is not empty
finishTextEditing(text, newObjectId) ==
  /\ IF textEditorPosition # null /\ trim(text) # ""
     THEN Install(AddObject(Store,
            [type |-> "text", selected |-> FALSE,
             position |-> textEditorPosition, text |-> trim(text)], newObjectId))
     ELSE UNCHANGED store
  /\ isTextEditing' = FALSE
  /\ textEditorPosition' = null
  /\ Did("finishTextEditing", IF objects' # objects THEN newObjectId ELSE 0)
  /\ trail' = NoTrail
  /\ UNCHANGED <<selectionBox, canvas, flows>>

\* ------------------------------------------- interactions in progress
\* tools the interactions are driven with
InteractionTools == {"line", "polygon", "text"}

\* the lowest id no object carries: the ids are interchangeable in the
\* interactions, and a new object takes the first unused one
FirstFresh == {id \in Fresh : \A other \in Fresh : id <= other}

\* The store operations themselves, whatever the tool and whatever else
\* is in progress; a polygon in progress is given at most 3 points.
NextInteraction ==
  \/ \E tool \in InteractionTools : setActiveTool(tool)
  \/ startDrawing(At(0, 0))
  \/ updateDrawing(At(2, 0))
  \/ startPolygonDrawing(At(0, 0))
  \/ Len(currentPolygonPoints) < 3 /\ addPolygonPoint(At(2, 0))
  \/ \E newObjectId \in FirstFresh : Room(1) /\ finishPolygon(newObjectId)
  \/ cancelPolygon
  \/ StartConstruction("select_two_points", [tool |-> activeTool])
  \/ startSelectionBox(origin)
  \/ startTextEditing(At(0, 0))
  \/ \E newObjectId \in FirstFresh : Room(1) /\ finishTextEditing("a", newObjectId)
  \/ updateCanvasSettings([snapToPoints |-> FALSE])
  \/ undo
  \/ clearCanvas

SpecInteraction == InitFlowScene /\ [][NextInteraction]_vars

\* C38: clearCanvas is a hard reset that cannot be undone.  From any
\* state it leaves the collection and the selection empty, the history a
\* single empty snapshot with historyIndex 0 (canUndo and canRedo are both
\* false, and an undo after it changes nothing), every drawing, polygon,
\* construction, selection-box and text-editing state reset, and the
\* active tool and the canvas settings as they were.
C38_ClearCanvasHardReset ==
  [][/\ last'.op = "clearCanvas" =>
          /\ objects' = <<>> /\ selectedObjectIds' = <<>>
          /\ history' = <<<<>>>> /\ historyIndex' = 0
          /\ ~canUndo' /\ ~canRedo'
          /\ ~isDrawing' /\ drawingStartPoint' = null /\ previewObject' = null
          /\ ~isPolygonDrawing' /\ currentPolygonPoints' = <<>>
          /\ constructionMode' = "none" /\ constructionStep' = 0
          /\ constructionData' = null
          /\ ~isSelectionBoxActive'
          /\ selectionBoxStart' = null /\ selectionBoxEnd' = null
          /\ ~isTextEditing' /\ textEditorPosition' = null
          /\ activeTool' = activeTool /\ canvas' = canvas
     /\ (last.op = "clearCanvas" /\ last'.op = "undo") => UNCHANGED store]_vars

\* the canvas was cleared under the text tool and changed settings, from
\* a state that had snapshots to redo
C38_Witness ==
  /\ last.op = "clearCanvas"
  /\ last.behind
  /\ activeTool = "text"
  /\ ~canvas.snapToPoints
  /\ objects = <<>>

\* C39: in every state reachable through the store operations the polygon
\* in progress is consistent: isPolygonDrawing false implies no
\* accumulated points, isPolygonDrawing true implies at least one; and
\* finishPolygon, cancelPolygon, setActiveTool and clearCanvas all leave
\* isPolygonDrawing false.
C39_PolygonStateConsistent ==
  /\ ~isPolygonDrawing => currentPolygonPoints = <<>>
  /\ isPolygonDrawing => Len(currentPolygonPoints) >= 1
  /\ last.op \in {"finishPolygon", "cancelPolygon", "setActiveTool", "clearCanvas"}
       => ~isPolygonDrawing

\* addPolygonPoint was called while no polygon was in progress
C39_Witness ==
  /\ last.op = "addPolygonPoint"
  /\ ~isPolygonDrawing

\* C40: setActiveTool cancels every interaction in progress (isDrawing
\* false, drawingStartPoint and previewObject null, no polygon in progress,
\* constructionMode 'none', text editing cancelled unless the tool is
\* 'text') and leaves the collection, the selection, the history and
\* historyIndex as they were.
C40_SetActiveToolCancels ==
  [][last'.op = "setActiveTool" =>
       /\ ~isDrawing' /\ drawingStartPoint' = null /\ previewObject' = null
       /\ ~isPolygonDrawing' /\ currentPolygonPoints' = <<>>
       /\ constructionMode' = "none"
       /\ (activeTool' # "text" => ~isTextEditing' /\ textEditorPosition' = null)
       /\ UNCHANGED store]_vars

\* the tool was switched to the line tool with snapshots to redo
C40_Witness ==
  /\ last.op = "setActiveTool"
  /\ activeTool = "line"
  /\ canRedo
  /\ Len(objects) > 0

====
